---------------------------- MODULE Spec2Model ----------------------------
(***************************************************************************)
(* url-collector: the URL classification / filtering pipeline.             *)
(*                                                                         *)
(*   groq_filter.py  is_obvious_post, is_obvious_seo, GroqFilter           *)
(*   filter.py       filter_urls and its helpers                           *)
(*   cli.py          main: the per-domain loop                             *)
(*   serper.py       SerperClient.site_search                              *)
(*                                                                         *)
(* Python strings are TLA+ strings; TLC evaluates Len, SubSeq and \o on    *)
(* them, so every string operation of the source is computed character by  *)
(* character.  The module's literals are ASCII: a Hangul syllable          *)
(* (U+AC00..U+D7A3) is written as the form-feed character "\f", which no   *)
(* URL of the model contains otherwise.                                    *)
(***************************************************************************)
EXTENDS Integers, Sequences, FiniteSets, TLC

(***************************************************************************)
(* Python str built-ins                                                    *)
(***************************************************************************)
Char(s, i) == SubSeq(s, i, i)

Min(S) == CHOOSE m \in S : \A n \in S : m <= n

Max(S) == CHOOSE m \in S : \A n \in S : m >= n

\* s[i:] with a 1-based i
From(s, i) == SubSeq(s, i, Len(s))

StartsWith(s, p) == Len(p) <= Len(s) /\ SubSeq(s, 1, Len(p)) = p

EndsWith(s, p) == Len(p) <= Len(s) /\ SubSeq(s, Len(s) - Len(p) + 1, Len(s)) = p

\* s.find(p, from): the 1-based index of the first occurrence at or after
\* `from`, 0 when there is none (p is never empty in the source).
Find(s, p, from) ==
    LET hits == {i \in from..(Len(s) - Len(p) + 1) : SubSeq(s, i, i + Len(p) - 1) = p}
    IN  IF hits = {} THEN 0 ELSE Min(hits)

\* s.rfind(p)
RFind(s, p) ==
    LET hits == {i \in 1..(Len(s) - Len(p) + 1) : SubSeq(s, i, i + Len(p) - 1) = p}
    IN  IF hits = {} THEN 0 ELSE Max(hits)

\* p in s
Contains(s, p) == \E i \in 1..(Len(s) - Len(p) + 1) : SubSeq(s, i, i + Len(p) - 1) = p

\* s.count(c) for a one-character c
Count(s, c) == Cardinality({i \in 1..Len(s) : Char(s, i) = c})

\* s.split(sep)
RECURSIVE Split(_, _)
Split(s, sep) ==
    LET i == Find(s, sep, 1)
    IN  IF i = 0 THEN <<s>>
        ELSE <<SubSeq(s, 1, i - 1)>> \o Split(From(s, i + Len(sep)), sep)

\* s.split(sep, 1)
Split1(s, sep) ==
    LET i == Find(s, sep, 1)
    IN  IF i = 0 THEN <<s>> ELSE <<SubSeq(s, 1, i - 1), From(s, i + Len(sep))>>

\* sep.join(parts)
RECURSIVE Join(_, _)
Join(parts, sep) ==
    IF parts = <<>> THEN ""
    ELSE IF Len(parts) = 1 THEN parts[1]
    ELSE parts[1] \o sep \o Join(Tail(parts), sep)

\* s.rstrip(c) for a one-character c
RStrip(s, c) ==
    LET keep == {i \in 1..Len(s) : Char(s, i) # c}
    IN  IF keep = {} THEN "" ELSE SubSeq(s, 1, Max(keep))

Whitespace == {" ", "\t", "\n", "\r", "\f"}

\* s.strip()
Strip(s) ==
    LET keep == {i \in 1..Len(s) : Char(s, i) \notin Whitespace}
    IN  IF keep = {} THEN "" ELSE SubSeq(s, Min(keep), Max(keep))

LowerChars == "abcdefghijklmnopqrstuvwxyz"

UpperChars == "ABCDEFGHIJKLMNOPQRSTUVWXYZ"

DigitChars == "0123456789"

IsLower(c) == Contains(LowerChars, c)

IsUpper(c) == Contains(UpperChars, c)

IsDigit(c) == Contains(DigitChars, c)

IsAlpha(c) == IsLower(c) \/ IsUpper(c)

\* The stand-in for a Hangul syllable: the classes [\uac00-\ud7af] and
\* [U+AC00-U+D7A3] of the source's regular expressions.
Hangul == "\f"

IsHangul(c) == c = Hangul

RECURSIVE MapChars(_, _, _)
MapChars(s, from, to) ==
    IF s = "" THEN ""
    ELSE LET c == Char(s, 1)
             i == Find(from, c, 1)
         IN  (IF i = 0 THEN c ELSE Char(to, i)) \o MapChars(From(s, 2), from, to)

\* s.lower(), s.upper()
Lower(s) == MapChars(s, UpperChars, LowerChars)

Upper(s) == MapChars(s, LowerChars, UpperChars)

\* s.replace(a, b) for one-character a and b
Replace(s, a, b) == MapChars(s, a, b)

\* str(n), n >= 0
RECURSIVE Str(_)
Str(n) ==
    IF n < 10 THEN Char(DigitChars, n + 1)
    ELSE Str(n \div 10) \o Char(DigitChars, (n % 10) + 1)

\* Code-point order of the characters of the model, for sorted().
CodeOrder == "\t\n\r !#$%&'()*+,-./0123456789:;<=>?@ABCDEFGHIJKLMNOPQRSTUVWXYZ[]^_abcdefghijklmnopqrstuvwxyz{|}~\f"

Code(c) == Find(CodeOrder, c, 1)

\* a < b on str
StrLess(a, b) ==
    LET n == IF Len(a) < Len(b) THEN Len(a) ELSE Len(b)
        diff == {i \in 1..n : Char(a, i) # Char(b, i)}
    IN  IF diff = {} THEN Len(a) < Len(b)
        ELSE Code(Char(a, Min(diff))) < Code(Char(b, Min(diff)))

\* sorted(S) for a set of strings
RECURSIVE Sorted(_)
Sorted(S) ==
    IF S = {} THEN <<>>
    ELSE LET m == CHOOSE a \in S : \A b \in S \ {a} : StrLess(a, b)
         IN  <<m>> \o Sorted(S \ {m})

Range(seq) == {seq[i] : i \in 1..Len(seq)}

(***************************************************************************)
(* Regular expressions of the source                                       *)
(***************************************************************************)
\* re.match(r'^\d+$', s)
AllDigits(s) == Len(s) >= 1 /\ \A i \in 1..Len(s) : IsDigit(Char(s, i))

\* re.search(r'[U+AC00-U+D7A3]', s), re.search(r"[\uac00-\ud7af]", s)
HasHangul(s) == \E i \in 1..Len(s) : IsHangul(Char(s, i))

\* re.match(r"^[a-z0-9]{8,}$", s, re.IGNORECASE)
IsHashToken(s) ==
    Len(s) >= 8 /\ \A i \in 1..Len(s) : IsAlpha(Char(s, i)) \/ IsDigit(Char(s, i))

(***************************************************************************)
(* urllib.parse                                                            *)
(***************************************************************************)
SchemeChars == LowerChars \o UpperChars \o DigitChars \o "+-."

UsesParams == {"", "ftp", "hdl", "prospero", "http", "imap", "https", "shttp",
               "rtsp", "rtsps", "rtspu", "sip", "sips", "mms", "sftp", "tel"}

\* The percent-escapes the model decodes: a three-byte UTF-8 Hangul
\* syllable and some ASCII characters.
DecodeTable == <<
    <<"%EA%B0%80", Hangul>>, <<"%EB%A8%B9", Hangul>>, <<"%ED%8A%80", Hangul>>,
    <<"%2D", "-">>, <<"%2F", "/">>, <<"%20", " ">>, <<"%5F", "_">> >>

\* urllib.parse.unquote
RECURSIVE unquote(_)
unquote(s) ==
    IF ~Contains(s, "%") THEN s
    ELSE LET hit == {k \in 1..Len(DecodeTable) : StartsWith(s, DecodeTable[k][1])}
         IN  IF hit = {} THEN Char(s, 1) \o unquote(From(s, 2))
             ELSE LET k == Min(hit)
                  IN  DecodeTable[k][2] \o unquote(From(s, Len(DecodeTable[k][1]) + 1))

\* s.split(sep, 1)[0], and the rest after sep ("" when sep is absent)
Before(s, sep) == IF Contains(s, sep) THEN SubSeq(s, 1, Find(s, sep, 1) - 1) ELSE s

After(s, sep) == IF Contains(s, sep) THEN From(s, Find(s, sep, 1) + Len(sep)) ELSE ""

\* _splitnetloc(url, 2): the index of the first of "/?#" after the "//",
\* len(url) + 1 when there is none
NetlocEnd(url) ==
    Min({i \in 3..Len(url) : Char(url, i) \in {"/", "?", "#"}} \cup {Len(url) + 1})

\* _splitparams(url): the index of the ";" that starts the params of the
\* last path segment, 0 when there is none
ParamsAt(url) ==
    IF Contains(url, "/") THEN Find(url, ";", RFind(url, "/")) ELSE Find(url, ";", 1)

\* urllib.parse.urlparse: scheme, netloc, path, params, query, fragment
urlparse(url) ==
    LET Params(scheme, netloc, path, query, fragment) ==
            IF scheme \in UsesParams /\ ParamsAt(path) # 0
            THEN [scheme |-> scheme, netloc |-> netloc,
                  path |-> SubSeq(path, 1, ParamsAt(path) - 1),
                  params |-> From(path, ParamsAt(path) + 1),
                  query |-> query, fragment |-> fragment]
            ELSE [scheme |-> scheme, netloc |-> netloc, path |-> path,
                  params |-> "", query |-> query, fragment |-> fragment]
        Query(scheme, netloc, rest, fragment) ==
            Params(scheme, netloc, Before(rest, "?"), After(rest, "?"), fragment)
        Fragment(scheme, netloc, rest) ==
            Query(scheme, netloc, Before(rest, "#"), After(rest, "#"))
        Netloc(scheme, rest) ==
            IF StartsWith(rest, "//")
            THEN Fragment(scheme, SubSeq(rest, 3, NetlocEnd(rest) - 1),
                          From(rest, NetlocEnd(rest)))
            ELSE Fragment(scheme, "", rest)
        Scheme(colon) ==
            IF /\ colon > 1
               /\ IsAlpha(Char(url, 1))
               /\ \A i \in 1..(colon - 1) : Contains(SchemeChars, Char(url, i))
            THEN Netloc(Lower(SubSeq(url, 1, colon - 1)), From(url, colon + 1))
            ELSE Netloc("", url)
    IN  Scheme(Find(url, ":", 1))

\* urllib.parse.parse_qsl(qs, keep_blank_values): the (name, value) pairs
RECURSIVE QslFields(_, _)
QslFields(fields, keep_blank_values) ==
    IF fields = <<>> THEN <<>>
    ELSE LET nv == Split1(Head(fields), "=")
             rest == QslFields(Tail(fields), keep_blank_values)
             value == IF Len(nv) = 2 THEN nv[2] ELSE ""
         IN  IF Head(fields) = "" THEN rest
             ELSE IF Len(nv) # 2 /\ ~keep_blank_values THEN rest
             ELSE IF Len(value) > 0 \/ keep_blank_values
                  THEN << <<unquote(Replace(nv[1], "+", " ")),
                            unquote(Replace(value, "+", " "))>> >> \o rest
                  ELSE rest

parse_qsl(qs, keep_blank_values) ==
    IF qs = "" THEN <<>> ELSE QslFields(Split(qs, "&"), keep_blank_values)

\* urllib.parse.parse_qs: a dict name -> list of values, kept as the
\* sequence of its (name, values) items in insertion order.
RECURSIVE QsDict(_, _)
QsDict(pairs, dict) ==
    IF pairs = <<>> THEN dict
    ELSE LET k == Head(pairs)[1]
             v == Head(pairs)[2]
             at == {i \in 1..Len(dict) : dict[i][1] = k}
         IN  QsDict(Tail(pairs),
                    IF at = {} THEN Append(dict, <<k, <<v>> >>)
                    ELSE [dict EXCEPT ![Min(at)] = <<k, Append(@[2], v)>>])

parse_qs(qs) == QsDict(parse_qsl(qs, FALSE), <<>>)

\* dict.keys() as a set; k in dict
Keys(dict) == {dict[i][1] : i \in 1..Len(dict)}

\* dict[k]
Get(dict, k) == dict[CHOOSE i \in 1..Len(dict) : dict[i][1] = k][2]

(***************************************************************************)
(* groq_filter.py: the rule stages                                         *)
(***************************************************************************)
\* [s for s in path.split("/") if s and not s.endswith(".php")]
RECURSIVE NonPhpSegments(_)
NonPhpSegments(parts) ==
    IF parts = <<>> THEN <<>>
    ELSE (IF Head(parts) # "" /\ ~EndsWith(Head(parts), ".php")
          THEN <<Head(parts)>> ELSE <<>>) \o NonPhpSegments(Tail(parts))

\* [s for s in path.split("/") if s]
RECURSIVE NonEmptySegments(_)
NonEmptySegments(parts) ==
    IF parts = <<>> THEN <<>>
    ELSE (IF Head(parts) # "" THEN <<Head(parts)>> ELSE <<>>)
         \o NonEmptySegments(Tail(parts))

post_params == {"wr_id", "spt", "sca", "sst", "sod", "sop", "stx", "sfl", "page"}

\* any(p + "=" in query for p in params)
AnyParamIn(params, query) == \E p \in params : Contains(query, p \o "=")

Last(seq) == seq[Len(seq)]

\* Stage 1
is_obvious_post(url) ==
    LET Rules(query, segments) ==
            \/ AnyParamIn(post_params, query)
            \/ Len(segments) >= 2 /\ AllDigits(Last(segments))
            \/ /\ Len(segments) >= 2
               /\ \/ Count(Last(segments), "-") >= 3 /\ Len(Last(segments)) > 20
                  \/ HasHangul(Last(segments)) /\ Count(Last(segments), "-") >= 2
            \/ \E k \in 1..Len(segments) :
                  AllDigits(segments[k]) /\ Len(segments[k]) >= 2
        Parsed(parsed) ==
            Rules(parsed.query,
                  NonPhpSegments(Split(RStrip(unquote(parsed.path), "/"), "/")))
    IN  Parsed(urlparse(url))

exclude_params == {"wr_id", "sca", "spt", "sst", "sod", "sop", "stx", "sfl", "page"}

\* Mutant: a URL with a query is never a listing.
is_obvious_seo_no_query(url) ==
    LET Rules(query, path, segments) ==
            /\ query = ""
            /\ \/ path = "" \/ path = "/"
               \/ /\ ~Contains(path, ".php")
                  /\ Len(segments) = 1
                  /\ ~AllDigits(segments[1]) /\ Len(segments[1]) <= 15
        Path(query, path) == Rules(query, path, NonPhpSegments(Split(path, "/")))
        Parsed(parsed) == Path(parsed.query, RStrip(unquote(parsed.path), "/"))
    IN  Parsed(urlparse(url))

\* Stage 2
is_obvious_seo(url) ==
    LET Rules(query, path, segments) ==
            IF query # ""
            THEN /\ Contains(path, "board.php") /\ Contains(query, "bo_table=")
                 /\ ~AnyParamIn(exclude_params, query)
                 /\ Count(query, "=") = 1
            ELSE \/ path = "" \/ path = "/"
                 \/ /\ ~Contains(path, ".php")
                    /\ Len(segments) = 1
                    /\ ~AllDigits(segments[1]) /\ Len(segments[1]) <= 15
        Path(query, path) == Rules(query, path, NonPhpSegments(Split(path, "/")))
        Parsed(parsed) == Path(parsed.query, RStrip(unquote(parsed.path), "/"))
    IN  Parsed(urlparse(url))

(***************************************************************************)
(* filter.py: the URL predicates                                           *)
(***************************************************************************)
\* re.search(pattern, path) for the patterns of SYSTEM_PATHS, each a
\* literal text once "\." is read as "."
SYSTEM_PATHS == {
    "/adm/", "/admin/", "/plugin/", "/lib/", "/extend/",
    "/modules/", "/widgets/", "/addons/", "/layouts/",
    "/wp-admin", "/wp-includes", "/wp-content/", "/wp-json",
    "/files/attach", "/files/cache", "/data/file/",
    "/login", "/logout", "/signin", "/signout", "/signup",
    "/register", "/auth/", "/oauth/", "/password",
    "/api/", "/ajax/", "/async/", "/xmlrpc",
    "/feed", "/rss", "/captcha", "/robots.txt", "/favicon",
    "/sitemap.xml" }

SYSTEM_PHP == {
    "login", "logout", "register", "password", "memo", "point",
    "scrap", "poll", "formmail", "qrcode", "new", "profile",
    "qalist", "link", "search", "tag", "shingo", "qa", "page" }

\* The patterns of STATIC_EXTENSIONS that end with "$", and the one that
\* does not.
STATIC_EXTENSIONS == {
    ".xml", ".json", ".css", ".js", ".png", ".jpg", ".jpeg", ".gif",
    ".svg", ".ico", ".ttf", ".pdf", ".zip", ".rar" }

STATIC_ANYWHERE == {".woff"}

LIST_PARAMS == {"page", "sca", "sfl", "stx", "sop", "sst", "sod", "category", "cat"}

TRACKING_PARAMS == {"utm_", "fbclid", "gclid", "ref", "device"}

id_params ==
    {"wr_id", "id", "no", "idx", "seq", "num", "article_id", "post_id", "document_srl"}

list_endings == {"posts", "list", "page", "items", "all", "archive"}

\* re.search(r"/\d+/?$", path)
EndsWithNumber(path) ==
    LET Body(p) == RFind(p, "/") >= 1 /\ AllDigits(From(p, RFind(p, "/") + 1))
    IN  Body(IF EndsWith(path, "/") THEN SubSeq(path, 1, Len(path) - 1) ELSE path)

\* re.search(r"\d{3,}", s)
HasThreeDigits(s) ==
    \E i \in 1..(Len(s) - 2) : AllDigits(SubSeq(s, i, i + 2))

\* re.search(r"^[U+AC00-U+D7AF]+$", s)
AllHangul(s) == Len(s) >= 1 /\ \A i \in 1..Len(s) : IsHangul(Char(s, i))

\* re.match(r"^[a-z_]+$", s, re.IGNORECASE)
AllLettersOrUnderscore(s) ==
    Len(s) >= 1 /\ \A i \in 1..Len(s) : IsAlpha(Char(s, i)) \/ Char(s, i) = "_"

_has_content_identifier(url) ==
    LET Slug(segments, last_segment) ==
            \/ IsHashToken(last_segment)
            \/ /\ Len(segments) >= 2
               /\ \/ Count(last_segment, "-") >= 2
                  \/ HasHangul(last_segment) /\ Contains(last_segment, "-")
                  \/ Len(segments) >= 3 /\ Len(last_segment) > 10
        Segments(segments) == segments # <<>> /\ Slug(segments, Last(segments))
        Rules(path, query) ==
            \/ Keys(query) \cap id_params # {}
            \/ EndsWithNumber(path)
            \/ Segments(NonEmptySegments(Split(path, "/")))
        Parsed(parsed) ==
            Rules(RStrip(unquote(parsed.path), "/"), parse_qs(parsed.query))
    IN  Parsed(urlparse(url))

_is_system_url(url) ==
    LET Rules(path) ==
            \/ \E pattern \in SYSTEM_PATHS : Contains(path, pattern)
            \/ \E pattern \in STATIC_EXTENSIONS : EndsWith(path, pattern)
            \/ \E pattern \in STATIC_ANYWHERE : Contains(path, pattern)
            \/ /\ Contains(path, "/bbs/")
               /\ \E php \in SYSTEM_PHP :
                     \/ Contains(path, "/" \o php \o ".php")
                     \/ Contains(path, "/" \o php \o "/")
    IN  Rules(Lower(urlparse(url).path))

_is_list_page(url) ==
    LET Category(last) ==
            \/ Contains(last, "_") /\ ~HasThreeDigits(last)
            \/ AllHangul(last) /\ Len(last) <= 10
            \/ AllLettersOrUnderscore(last) /\ Len(last) <= 20
        Patterns(segments) ==
            /\ segments # <<>>
            /\ \/ Lower(Last(segments)) \in list_endings
               \/ Len(segments) = 2 /\ Category(Last(segments))
        Rules(path, query, segments) ==
            \/ path \in {"", "/index.php", "/index.html", "/show.php", "/main"}
            \/ Contains(Lower(path), "board.php") /\ "wr_id" \notin Keys(query)
            \/ Len(segments) = 1
            \/ Patterns(segments)
            \/ /\ query # <<>>
               /\ {Lower(k) : k \in Keys(query)} \subseteq LIST_PARAMS \cup TRACKING_PARAMS
        Path(path, query) ==
            Rules(path, query, NonPhpSegments(Split(path, "/")))
        Parsed(parsed) ==
            Path(RStrip(unquote(parsed.path), "/"), parse_qs(parsed.query))
    IN  ~_has_content_identifier(url) /\ Parsed(urlparse(url))

\* The placeholder _get_url_structure writes for a path segment.
\* Mutant: an all-digit segment is kept as it is.
PlaceholderKeepsDigits(seg) ==
    IF EndsWith(seg, ".php") THEN seg
    ELSE IF Len(seg) > 10 /\ (Contains(seg, "-") \/ HasHangul(seg)) THEN "{slug}"
    ELSE IF IsHashToken(seg) THEN "{hash}"
    ELSE seg

Placeholder(seg) ==
    IF EndsWith(seg, ".php") THEN seg
    ELSE IF AllDigits(seg) THEN "{id}"
    ELSE IF Len(seg) > 10 /\ (Contains(seg, "-") \/ HasHangul(seg)) THEN "{slug}"
    ELSE IF IsHashToken(seg) THEN "{hash}"
    ELSE seg

_get_url_structure(url) ==
    LET Pattern(netloc, segments, query_keys) ==
            netloc \o "/"
               \o Join([k \in 1..Len(segments) |-> Placeholder(segments[k])], "/")
               \o "?" \o Join(query_keys, "&")
        Parsed(parsed) ==
            Pattern(parsed.netloc,
                    NonEmptySegments(Split(RStrip(parsed.path, "/"), "/")),
                    Sorted(Keys(parse_qs(parsed.query))))
    IN  Parsed(urlparse(url))

\* Mutant: the query pairs are joined in the order of the URL.
_normalize_url_unsorted(url) ==
    LET Clean(parsed, query, keys) ==
            parsed.scheme \o "://" \o parsed.netloc \o parsed.path
               \o (IF keys = <<>> THEN ""
                   ELSE "?" \o Join([k \in 1..Len(keys) |->
                                        keys[k] \o "=" \o Get(query, keys[k])[1]], "&"))
        Query(parsed, query) ==
            Clean(parsed, query,
                  SelectSeq([i \in 1..Len(query) |-> query[i][1]],
                            LAMBDA k : ~\E t \in TRACKING_PARAMS : StartsWith(Lower(k), t)))
        Parsed(parsed) == Query(parsed, parse_qs(parsed.query))
    IN  Parsed(urlparse(url))

_normalize_url(url) ==
    LET Clean(parsed, query, keys) ==
            parsed.scheme \o "://" \o parsed.netloc \o parsed.path
               \o (IF keys = <<>> THEN ""
                   ELSE "?" \o Join([k \in 1..Len(keys) |->
                                        keys[k] \o "=" \o Get(query, keys[k])[1]], "&"))
        Query(parsed, query) ==
            Clean(parsed, query,
                  Sorted({k \in Keys(query) :
                             ~\E t \in TRACKING_PARAMS : StartsWith(Lower(k), t)}))
        Parsed(parsed) == Query(parsed, parse_qs(parsed.query))
    IN  Parsed(urlparse(url))

(***************************************************************************)
(* ai_filter.py: the heuristic score                                       *)
(*                                                                         *)
(* calculate_score tells Hangul words apart, so the syllables its texts    *)
(* use have a stand-in of their own each.  An entry of a table of the      *)
(* source written with other syllables can match no text of the model and  *)
(* is left out of the table.                                               *)
(***************************************************************************)
KoMe == "~"     \* U+BA54

KoIn == "^"     \* U+C778

KoHom == "$"    \* U+D648

\* SEO_IMPORTANT as (keyword, points); of the Hangul keywords the ones made
\* of KoMe, KoIn and KoHom
SEO_IMPORTANT == <<
    <<KoMe \o KoIn, 20>>, <<KoHom, 15>>,
    <<"main", 20>>, <<"home", 15>>, <<"about", 15>>, <<"intro", 15>>,
    <<"verification", 25>>, <<"report", 20>>, <<"review", 15>>,
    <<"notice", 15>>, <<"event", 10>>, <<"faq", 10>> >>

IMPORTANT_BOARDS == <<
    <<"verification", 25>>, <<"mt_site", 25>>, <<"report", 20>>, <<"notice", 15>>,
    <<"event", 10>>, <<"info", 10>>, <<"review", 15>>, <<"qa", 10>> >>

ARTICLE_PENALTY == -10

system_pages == <<
    "login", "logout", "register", "password", "member", "captcha",
    "current_connect", "new.php", "qalist", "profile", "memo",
    "point", "scrap", "formmail", "qrcode" >>

filter_params == <<"sca", "page", "sfl", "stx", "sop", "sst", "sod">>

unimportant_boards == <<"chulsuk", "attendance", "coupon">>

\* sum(points for (keyword, points) in table if Hit(keyword))
RECURSIVE SumPoints(_, _, _)
SumPoints(table, text, path) ==
    IF table = <<>> THEN 0
    ELSE (IF Contains(text, Head(table)[1]) \/ Contains(path, Head(table)[1])
          THEN Head(table)[2] ELSE 0)
         + SumPoints(Tail(table), text, path)

\* for board, points in table: if board in bo_table: score += points; break
FirstPoints(table, bo_table) ==
    LET hits == {k \in 1..Len(table) : Contains(bo_table, table[k][1])}
    IN  IF hits = {} THEN 0 ELSE table[Min(hits)][2]

\* query.get("bo_table", [""])[0].lower()
BoTable(query) ==
    Lower(IF "bo_table" \in Keys(query) THEN Get(query, "bo_table")[1] ELSE "")

\* Mutant: only the key "page" is penalised.
PaginationPenaltyPageOnly(query) ==
    IF "page" \in Keys(query) THEN -80 ELSE 0

\* step 7: for param in filter_params: if param in query: score -= 80; break
PaginationPenalty(query) ==
    IF \E k \in 1..Len(filter_params) : filter_params[k] \in Keys(query)
    THEN -80 ELSE 0

\* step 6: for sys_page in system_pages: if sys_page in path: score -= 50; break
SystemPagePenalty(path) ==
    IF \E k \in 1..Len(system_pages) : Contains(path, system_pages[k])
    THEN -50 ELSE 0

calculate_score(url, title, snippet) ==
    LET Score(path, query, text) ==
              (IF path \in {"", "/", "/index.php", "/index.html", "/main"}
               THEN 30 ELSE 0)
            + (IF Len(NonPhpSegments(Split(path, "/"))) = 1 THEN 20 ELSE 0)
            + (IF Contains(path, "board.php") /\ "bo_table" \in Keys(query)
               THEN IF "wr_id" \notin Keys(query)
                    THEN 25 + FirstPoints(IMPORTANT_BOARDS, BoTable(query))
                    ELSE ARTICLE_PENALTY
               ELSE 0)
            + (IF EndsWithNumber(path) THEN ARTICLE_PENALTY ELSE 0)
            + SumPoints(SEO_IMPORTANT, text, path)
            + SystemPagePenalty(path)
            + PaginationPenalty(query)
            + (IF /\ "bo_table" \in Keys(query)
                  /\ \E k \in 1..Len(unimportant_boards) :
                        Contains(BoTable(query), unimportant_boards[k])
               THEN -80 ELSE 0)
        Parsed(parsed) ==
            Score(RStrip(Lower(unquote(parsed.path)), "/"),
                  parse_qs(parsed.query),
                  Lower(title \o " " \o snippet))
    IN  Parsed(urlparse(url))

(***************************************************************************)
(* State: one frame per running program.  A frame holds the locals of the  *)
(* call and its position pc; a program that is not running is Idle.        *)
(***************************************************************************)
VARIABLES
    classify,   \* GroqFilter.classify_urls
    parse,      \* GroqFilter._parse_response, called on its own
    filter,     \* filter.filter_urls
    cli,        \* cli.main
    shape,      \* filter._get_url_structure, called on its own
    score,      \* ai_filter.calculate_score, called on its own
    rank,       \* ai_filter.smart_filter_urls
    search,     \* SerperClient.site_search, page by page
    brand       \* BrandSearcher.get_site_title

vars == <<classify, parse, filter, cli, shape, score, rank, search, brand>>

Idle == [pc |-> "idle"]

(***************************************************************************)
(* groq_filter.py: GroqFilter                                              *)
(***************************************************************************)
\* {url: "POST" for url in urls}
AllPost(urls) == [u \in Range(urls) |-> "POST"]

\* dict.update
Update(results, other) == other @@ results

\* Mutant: the last matching line decides, and a line matches when it
\* starts with the number.
ClassificationLastLine(i, lines) ==
    LET matching == {k \in 1..Len(lines) : StartsWith(Strip(lines[k]), Str(i))}
    IN  IF matching # {} /\ Contains(Upper(lines[Max(matching)]), "SEO")
        THEN "SEO" ELSE "POST"

\* The value of classification at the end of iteration i (1-based) of the
\* loop over urls: the inner loop stops at the first line that, stripped,
\* starts with "i." or "i ".
Classification(i, lines) ==
    LET matching == {k \in 1..Len(lines) :
                        \/ StartsWith(Strip(lines[k]), Str(i) \o ".")
                        \/ StartsWith(Strip(lines[k]), Str(i) \o " ")}
    IN  IF matching # {} /\ Contains(Upper(lines[Min(matching)]), "SEO")
        THEN "SEO" ELSE "POST"

\* Mutant: only the items the reply names get a label.
_parse_response_named_only(urls, answer) ==
    LET lines == Split(Strip(answer), "\n")
        named == {i \in 1..Len(urls) :
                     \E k \in 1..Len(lines) : StartsWith(Strip(lines[k]), Str(i))}
    IN  [u \in {urls[i] : i \in named} |->
            Classification(Max({i \in 1..Len(urls) : urls[i] = u}), lines)]

\* results[url] = classification, iteration after iteration: a URL that
\* is in urls more than once keeps the value of its last iteration.
_parse_response(urls, answer) ==
    LET lines == Split(Strip(answer), "\n")
    IN  [u \in Range(urls) |->
            Classification(Max({i \in 1..Len(urls) : urls[i] = u}), lines)]

\* A call of _parse_response: its arguments, the value of classification
\* at the end of each iteration, and the dict returned.
ParseFrame(urls, answer) ==
    [pc |-> "call", urls |-> urls, answer |-> answer,
     classification |-> <<>>, results |-> <<>>]

ParseCall(f) ==
    [f EXCEPT !.pc = "done",
              !.classification =
                  [i \in 1..Len(f.urls) |->
                      Classification(i, Split(Strip(f.answer), "\n"))],
              !.results = _parse_response(f.urls, f.answer)]

\* What the external call of _classify_batch does: requests.post raises
\* (timeout, connection error), or it returns a response with a status
\* code whose body decodes as JSON or not, and whose JSON holds
\* choices[0].message.content or not.
Response(raises, status_code, decodes, has_content, content) ==
    [raises |-> raises, status_code |-> status_code, decodes |-> decodes,
     has_content |-> has_content, content |-> content]

\* The try block of _classify_batch: its return value, or exc when an
\* exception leaves it.
ClassifyBatchTry(urls, resp) ==
    IF resp.raises THEN [exc |-> TRUE, ret |-> <<>>]
    ELSE IF resp.status_code # 200 THEN [exc |-> FALSE, ret |-> AllPost(urls)]
    ELSE IF ~resp.decodes \/ ~resp.has_content THEN [exc |-> TRUE, ret |-> <<>>]
    ELSE [exc |-> FALSE, ret |-> _parse_response(urls, resp.content)]

\* Mutant: no except clause.
_classify_batch_uncaught(urls, resp) == ClassifyBatchTry(urls, resp)

_classify_batch(urls, resp) ==
    LET Except(try) == IF try.exc THEN [exc |-> FALSE, ret |-> AllPost(urls)] ELSE try
    IN  Except(ClassifyBatchTry(urls, resp))

\* Mutant: Stage 2 is asked before Stage 1.
RuleIterationSeoFirst(f) ==
    LET Go(url, pc) ==
            IF is_obvious_seo(url)
            THEN [f EXCEPT !.results = Update(@, url :> "SEO"), !.i = @ + 1,
                           !.pc = pc]
            ELSE IF is_obvious_post(url)
            THEN [f EXCEPT !.results = Update(@, url :> "POST"), !.i = @ + 1,
                           !.pc = pc]
            ELSE [f EXCEPT !.need_ai = Append(@, url), !.i = @ + 1, !.pc = pc]
    IN  Go(f.urls[f.i], IF f.i = Len(f.urls) THEN "batches" ELSE "rules")

\* One iteration of the first loop of classify_urls.
RuleIteration(f) ==
    LET Go(url, pc) ==
            IF is_obvious_post(url)
            THEN [f EXCEPT !.results = Update(@, url :> "POST"), !.i = @ + 1,
                           !.pc = pc]
            ELSE IF is_obvious_seo(url)
            THEN [f EXCEPT !.results = Update(@, url :> "SEO"), !.i = @ + 1,
                           !.pc = pc]
            ELSE [f EXCEPT !.need_ai = Append(@, url), !.i = @ + 1, !.pc = pc]
    IN  Go(f.urls[f.i], IF f.i = Len(f.urls) THEN "batches" ELSE "rules")

\* Mutant: need_ai[:i + batch_size], a batch holds the earlier batches too.
BatchAtFromStart(need_ai, off, batch_size) ==
    SubSeq(need_ai, 1, Min({off + batch_size, Len(need_ai)}))

\* need_ai[i:i + batch_size] for the 0-based offset off
BatchAt(need_ai, off, batch_size) ==
    SubSeq(need_ai, off + 1, Min({off + batch_size, Len(need_ai)}))

\* Mutant: a failed call ends the batch loop.
BatchIterationBreak(f, resp) ==
    LET Go(batch, batch_results) ==
            [f EXCEPT !.results = Update(@, batch_results.ret),
                      !.off = IF resp.raises \/ resp.status_code # 200
                              THEN Len(f.need_ai) ELSE @ + f.batch_size,
                      !.calls = Append(@, [batch |-> batch, resp |-> resp,
                                           ret |-> batch_results.ret])]
        Batch(batch) == Go(batch, _classify_batch(batch, resp))
    IN  Batch(BatchAt(f.need_ai, f.off, f.batch_size))

\* One iteration of the batch loop of classify_urls, the external call
\* answering resp.  calls records each call: its batch, the response and
\* what _classify_batch returned.
BatchIteration(f, resp) ==
    LET Go(batch, batch_results) ==
            IF batch_results.exc
            THEN [f EXCEPT !.pc = "raised",
                           !.calls = Append(@, [batch |-> batch, resp |-> resp,
                                                ret |-> <<>>])]
            ELSE [f EXCEPT !.results = Update(@, batch_results.ret),
                           !.off = @ + f.batch_size,
                           !.calls = Append(@, [batch |-> batch, resp |-> resp,
                                                ret |-> batch_results.ret])]
        Batch(batch) == Go(batch, _classify_batch(batch, resp))
    IN  Batch(BatchAt(f.need_ai, f.off, f.batch_size))

\* classify_urls(urls, batch_size) is entered.
ClassifyFrame(urls, batch_size) ==
    [urls |-> urls, batch_size |-> batch_size,
     pc |-> IF urls = <<>> THEN "batches" ELSE "rules",
     i |-> 1, off |-> 0, results |-> <<>>, need_ai |-> <<>>, calls |-> <<>>]

(***************************************************************************)
(* filter.py: filter_urls                                                  *)
(***************************************************************************)
\* item.get(key, "")
ItemGet(item, key) == IF key \in DOMAIN item THEN item[key] ELSE ""

\* defaultdict(int): d[k] reads 0 for a missing key, and inserts it.
Touch(d, k) == IF k \in DOMAIN d THEN d ELSE d @@ (k :> 0)

Increment(d, k) == [Touch(d, k) EXCEPT ![k] = @ + 1]

\* The locals of filter_urls at entry.  structures and log record, for
\* each item, the values the two loops computed for it.
FilterFrame(urls, strict, max_per_domain) ==
    [pc |-> "count", urls |-> urls, strict |-> strict,
     max_per_domain |-> max_per_domain, i |-> 1,
     filtered |-> <<>>, seen |-> {}, domain_counts |-> <<>>,
     structure_counts |-> <<>>, structures |-> <<>>, log |-> <<>>]

\* Mutant: a URL that was in an earlier item is not counted again.
CountIterationDistinct(f) ==
    LET Counted(url, structure) ==
            [f EXCEPT !.i = IF f.i = Len(f.urls) THEN 1 ELSE f.i + 1,
                      !.pc = IF f.i = Len(f.urls) THEN "filter" ELSE "count",
                      !.structures = Append(@, structure),
                      !.structure_counts =
                          IF \/ url = ""
                             \/ \E j \in 1..(f.i - 1) : ItemGet(f.urls[j], "url") = url
                          THEN @ ELSE Increment(@, structure)]
        Url(url) == Counted(url, IF url = "" THEN "" ELSE _get_url_structure(url))
    IN  Url(ItemGet(f.urls[f.i], "url"))

\* One iteration of the first loop (lines 211-215).
CountIteration(f) ==
    LET Counted(url, structure) ==
            [f EXCEPT !.i = IF f.i = Len(f.urls) THEN 1 ELSE f.i + 1,
                      !.pc = IF f.i = Len(f.urls) THEN "filter" ELSE "count",
                      !.structures = Append(@, structure),
                      !.structure_counts =
                          IF url = "" THEN @ ELSE Increment(@, structure)]
        Url(url) == Counted(url, IF url = "" THEN "" ELSE _get_url_structure(url))
    IN  Url(ItemGet(f.urls[f.i], "url"))

\* Mutant: the cap lets one more through.
OverCapOffByOne(domain_counts, domain, max_per_domain) ==
    Touch(domain_counts, domain)[domain] > max_per_domain

\* domain_counts[domain] >= max_per_domain
OverCap(domain_counts, domain, max_per_domain) ==
    Touch(domain_counts, domain)[domain] >= max_per_domain

\* Mutant: the frequency rule looks for two URLs of a structure.
FrequentTwo(structure_counts, structure) ==
    Touch(structure_counts, structure)[structure] >= 2

\* Mutant: the frequency rule looks for five URLs of a structure.
FrequentFive(structure_counts, structure) ==
    Touch(structure_counts, structure)[structure] >= 5

\* structure_counts[structure] >= 3
Frequent(structure_counts, structure) ==
    Touch(structure_counts, structure)[structure] >= 3

\* What the body of the second loop decides for a URL that is not empty:
\* where the iteration ends, and the values of its locals (structure is
\* "" when line 252 was not reached).
Verdict(f, url) ==
    LET Entry(verdict, normalized, domain, structure, is_article) ==
            [url |-> url, verdict |-> verdict, normalized |-> normalized,
             domain |-> domain, structure |-> structure, is_article |-> is_article]
        Judge(normalized, domain, structure, is_article) ==
            IF ~is_article /\ _is_list_page(url)
            THEN Entry("list", normalized, domain, structure, is_article)
            ELSE IF f.strict /\ ~is_article
            THEN Entry("strict", normalized, domain, structure, is_article)
            ELSE Entry("kept", normalized, domain, structure, is_article)
        Structure(normalized, domain, has_wr_id, structure) ==
            Judge(normalized, domain, structure,
                  \/ has_wr_id
                  \/ Frequent(f.structure_counts, structure)
                  \/ _has_content_identifier(url))
        Query(normalized, domain, has_wr_id) ==
            Structure(normalized, domain, has_wr_id,
                      IF has_wr_id THEN "" ELSE _get_url_structure(url))
        Parsed(normalized, parsed) ==
            IF OverCap(f.domain_counts, parsed.netloc, f.max_per_domain)
            THEN Entry("cap", normalized, parsed.netloc, "", FALSE)
            ELSE IF _is_system_url(url)
            THEN Entry("system", normalized, parsed.netloc, "", FALSE)
            ELSE Query(normalized, parsed.netloc,
                       "wr_id" \in Keys(parse_qs(parsed.query)))
        Normalized(normalized) ==
            IF normalized \in f.seen
            THEN Entry("duplicate", normalized, "", "", FALSE)
            ELSE Parsed(normalized, urlparse(url))
    IN  Normalized(_normalize_url(url))

\* One iteration of the second loop (lines 217-273).
FilterIteration(f) ==
    LET Advance(g) ==
            [g EXCEPT !.i = f.i + 1,
                      !.pc = IF f.i = Len(f.urls) THEN "done" ELSE "filter"]
        Decided(item, e) ==
            Advance(
              [f EXCEPT
                 !.log = Append(@, e),
                 !.seen = IF e.verdict = "duplicate" THEN @ ELSE @ \cup {e.normalized},
                 !.domain_counts =
                     IF e.verdict = "duplicate" THEN @
                     ELSE IF e.verdict = "kept" THEN Increment(@, e.domain)
                     ELSE Touch(@, e.domain),
                 !.structure_counts =
                     IF e.structure = "" THEN @ ELSE Touch(@, e.structure),
                 !.filtered =
                     IF e.verdict = "kept"
                     THEN Append(@, [url |-> e.url,
                                     title |-> ItemGet(item, "title"),
                                     snippet |-> ItemGet(item, "snippet")])
                     ELSE @])
        Item(item) ==
            IF ItemGet(item, "url") = ""
            THEN Advance([f EXCEPT !.log = Append(@,
                             [url |-> "", verdict |-> "empty", normalized |-> "",
                              domain |-> "", structure |-> "",
                              is_article |-> FALSE])])
            ELSE Decided(item, Verdict(f, Split(ItemGet(item, "url"), "#")[1]))
    IN  Item(f.urls[f.i])

\* filter_urls run to its return.
RECURSIVE FilterRun(_)
FilterRun(f) ==
    IF f.pc = "done" THEN f
    ELSE IF f.pc = "count" THEN FilterRun(CountIteration(f))
    ELSE FilterRun(FilterIteration(f))

\* An empty list runs neither loop.
FilterEntry(urls, strict, max_per_domain) ==
    [FilterFrame(urls, strict, max_per_domain) EXCEPT
        !.pc = IF urls = <<>> THEN "done" ELSE "count"]

filter_urls(urls, strict, max_per_domain) ==
    FilterRun(FilterEntry(urls, strict, max_per_domain)).filtered

(***************************************************************************)
(* serper.py: SerperClient.site_search                                     *)
(***************************************************************************)
per_page == 10

\* s.replace(old, new) for a text old
RECURSIVE ReplaceText(_, _, _)
ReplaceText(s, old, new) ==
    IF Find(s, old, 1) = 0 THEN s
    ELSE SubSeq(s, 1, Find(s, old, 1) - 1) \o new
            \o ReplaceText(From(s, Find(s, old, 1) + Len(old)), old, new)

\* domain.replace("https://", "").replace("http://", "").rstrip("/")
DomainName(domain) ==
    RStrip(ReplaceText(ReplaceText(domain, "https://", ""), "http://", ""), "/")

\* What the service answers for one page: the request raises, or the body
\* holds a list "organic" of items.
Page(raises, organic) == [raises |-> raises, organic |-> organic]

\* The answer to the request for page number page: past the last page the
\* service has, an empty list.
PageAt(pages, page) == IF page <= Len(pages) THEN pages[page] ELSE Page(FALSE, <<>>)

\* Lines 54-64: the items of a page whose link is new are appended.
RECURSIVE AddNew(_, _)
AddNew(s, organic) ==
    IF organic = <<>> THEN s
    ELSE AddNew(
           IF ItemGet(Head(organic), "link") # ""
              /\ ItemGet(Head(organic), "link") \notin s.seen_urls
           THEN [s EXCEPT
                   !.seen_urls = @ \cup {ItemGet(Head(organic), "link")},
                   !.all_results =
                       Append(@, [url |-> ItemGet(Head(organic), "link"),
                                  title |-> ItemGet(Head(organic), "title"),
                                  snippet |-> ItemGet(Head(organic), "snippet")]),
                   !.new_count = @ + 1]
           ELSE s,
           Tail(organic))

\* The while loop of site_search (lines 36-72), to its end: exc when the
\* request raised.
RECURSIVE SearchLoop(_, _, _)
SearchLoop(s, num_results, pages) ==
    IF ~(Len(s.all_results) < num_results
         /\ s.page <= (num_results + per_page - 1) \div per_page)
    THEN s
    ELSE IF PageAt(pages, s.page).raises THEN [s EXCEPT !.exc = TRUE]
    ELSE IF PageAt(pages, s.page).organic = <<>> THEN s
    ELSE LET Added(t) ==
                 IF t.new_count = 0 THEN t
                 ELSE SearchLoop([t EXCEPT !.page = @ + 1], num_results, pages)
         IN  Added(AddNew([s EXCEPT !.new_count = 0], PageAt(pages, s.page).organic))

\* site_search: exc, or the list returned, all_results[:num_results].
site_search(num_results, pages) ==
    LET Return(s) ==
            [exc |-> s.exc,
             ret |-> IF s.exc THEN <<>>
                     ELSE SubSeq(s.all_results, 1, Min({num_results, Len(s.all_results)}))]
    IN  Return(SearchLoop([all_results |-> <<>>, seen_urls |-> {}, page |-> 1,
                           new_count |-> 0, exc |-> FALSE],
                          num_results, pages))

(***************************************************************************)
(* cli.py: main, from line 73                                              *)
(***************************************************************************)
\* results[domain] = value: a new key goes last, a key already there keeps
\* its place.
DictSet(dict, k, v) ==
    IF k \in Keys(dict)
    THEN [i \in 1..Len(dict) |-> IF dict[i][1] = k THEN <<k, v>> ELSE dict[i]]
    ELSE Append(dict, <<k, v>>)

CliFrame(domains, num, no_filter) ==
    [pc |-> "loop", domains |-> domains, num |-> num, no_filter |-> no_filter,
     i |-> 1, results |-> <<>>, out |-> <<>>, fetched |-> <<>>]

\* Mutant: the exception of a fetch leaves the loop.
CliIterationStops(f, pages) ==
    LET Fetched(domain, raw) ==
            [f EXCEPT
               !.i = IF raw.exc THEN Len(f.domains) + 1 ELSE @ + 1,
               !.fetched = Append(@, [domain |-> domain, exc |-> raw.exc,
                                      raw |-> raw.ret]),
               !.results =
                   DictSet(@, domain,
                           IF raw.exc THEN <<>>
                           ELSE IF f.no_filter THEN raw.ret
                           ELSE filter_urls(raw.ret, FALSE, 50))]
    IN  Fetched(DomainName(f.domains[f.i]), site_search(f.num, pages))

\* One iteration of the loop over args.domains (lines 76-87), the service
\* answering pages; fetched logs the domain asked for, whether the call
\* raised, and the list it returned.
CliIteration(f, pages) ==
    LET Fetched(domain, raw) ==
            [f EXCEPT
               !.i = @ + 1,
               !.fetched = Append(@, [domain |-> domain, exc |-> raw.exc,
                                      raw |-> raw.ret]),
               !.results =
                   DictSet(@, domain,
                           IF raw.exc THEN <<>>
                           ELSE IF f.no_filter THEN raw.ret
                           ELSE filter_urls(raw.ret, FALSE, 50))]
    IN  Fetched(DomainName(f.domains[f.i]), site_search(f.num, pages))

\* The URLs written, domain after domain (lines 93-102).
RECURSIVE Listing(_)
Listing(results) ==
    IF results = <<>> THEN <<>>
    ELSE [k \in 1..Len(Head(results)[2]) |-> Head(results)[2][k].url]
            \o Listing(Tail(results))

CliOutput(f) == [f EXCEPT !.pc = "done", !.out = Listing(f.results)]

(***************************************************************************)
(* Inputs                                                                  *)
(***************************************************************************)
MaxUrls == 3

BatchSizes == {1, 2}

\* Section 8's end-to-end scenario.
ScenarioUrls == <<"https://d.example/",
                  "https://d.example/mt/5733",
                  "https://d.example/bbs/board.php?bo_table=notice",
                  "https://d.example/bbs/board.php?bo_table=notice&wr_id=5">>

\* URLs that Stage 1 matches, that Stage 2 matches, that both match, and
\* that neither matches.
ClassifyPool == {
    "https://d.example/",
    "https://d.example/mt/5733",
    "https://d.example/2024/board.php?bo_table=notice",
    "https://d.example/bsite/toto",
    "https://d.example/bbs/faq.php" }

SeqsUpTo(S, n) == UNION {[1..k -> S] : k \in 0..n}

ClassifyInputs == SeqsUpTo(ClassifyPool, MaxUrls) \cup {ScenarioUrls}

\* Replies of the external service: complete, partial, garbage.
Answers == {
    "1. SEO\n2. seo\n3. SEO\n4. SEO",
    "2. SEO\n2. POST",
    "I cannot classify these URLs." }

Responses ==
    {Response(TRUE, 0, FALSE, FALSE, ""),
     Response(FALSE, 429, TRUE, FALSE, ""),
     Response(FALSE, 200, FALSE, FALSE, ""),
     Response(FALSE, 200, TRUE, FALSE, "")}
    \cup {Response(FALSE, 200, TRUE, TRUE, a) : a \in Answers}

(***************************************************************************)
(* classify_urls as a state machine                                        *)
(***************************************************************************)
ClassifyInit ==
    /\ classify \in {ClassifyFrame(us, b) : us \in ClassifyInputs, b \in BatchSizes}
    /\ parse = Idle /\ filter = Idle /\ cli = Idle
    /\ shape = Idle /\ score = Idle /\ rank = Idle /\ search = Idle /\ brand = Idle

RuleStep ==
    /\ classify.pc = "rules"
    /\ classify' = RuleIteration(classify)
    /\ UNCHANGED <<parse, filter, cli, shape, score, rank, search, brand>>

BatchStep ==
    /\ classify.pc = "batches"
    /\ classify.off < Len(classify.need_ai)
    /\ \E resp \in Responses : classify' = BatchIteration(classify, resp)
    /\ UNCHANGED <<parse, filter, cli, shape, score, rank, search, brand>>

ClassifyReturn ==
    /\ classify.pc = "batches"
    /\ classify.off >= Len(classify.need_ai)
    /\ classify' = [classify EXCEPT !.pc = "done"]
    /\ UNCHANGED <<parse, filter, cli, shape, score, rank, search, brand>>

ClassifyNext == RuleStep \/ BatchStep \/ ClassifyReturn

SpecClassify == ClassifyInit /\ [][ClassifyNext]_vars

(***************************************************************************)
(* _parse_response as a state machine.  A reply is built from lines whose  *)
(* parts are known: leading blanks, a number (0: none), what follows the   *)
(* number, and the rest of the line.                                       *)
(***************************************************************************)
MaxLines == 3

Line(lead, num, sep, text) == [lead |-> lead, num |-> num, sep |-> sep, text |-> text]

ReplyLines == {
    Line("", 1, ".", " SEO"),
    Line("", 1, " ", "seo"),
    Line("  ", 1, ".", " POST"),
    Line("", 1, ")", " SEO"),
    Line("", 1, "", "SEO"),
    Line("", 1, " ", ""),
    Line("", 12, ".", " SEO"),
    Line("\t", 2, ".", " Seo page"),
    Line("", 2, " ", "- post"),
    Line("", 0, "", "SEO") }

Render(l) == l.lead \o (IF l.num = 0 THEN "" ELSE Str(l.num)) \o l.sep \o l.text

RenderAll(reply) == Join([k \in 1..Len(reply) |-> Render(reply[k])], "\n")

ParseUrls == {<<"https://d.example/a">>,
              <<"https://d.example/a", "https://d.example/b">>,
              <<"https://d.example/a", "https://d.example/a">>}

ParseInit ==
    /\ \E urls \in ParseUrls, reply \in SeqsUpTo(ReplyLines, MaxLines) :
          parse = [ParseFrame(urls, RenderAll(reply)) EXCEPT !.pc = "call"] @@ [reply |-> reply]
    /\ classify = Idle /\ filter = Idle /\ cli = Idle
    /\ shape = Idle /\ score = Idle /\ rank = Idle /\ search = Idle /\ brand = Idle

ParseStep ==
    /\ parse.pc = "call"
    /\ parse' = ParseCall(parse)
    /\ UNCHANGED <<classify, filter, cli, shape, score, rank, search, brand>>

ParseNext == ParseStep

SpecParse == ParseInit /\ [][ParseNext]_vars

(***************************************************************************)
(* filter_urls as a state machine.  The URLs of the inputs are built from  *)
(* their parts: what precedes the query, the query pairs in their order,   *)
(* and the fragment.                                                       *)
(***************************************************************************)
MaxItems == 3

Calls == {1, 2}

UrlParts(base, pairs, fragment) == [base |-> base, pairs |-> pairs, fragment |-> fragment]

RenderUrl(p) ==
    p.base
       \o (IF p.pairs = <<>> THEN ""
           ELSE "?" \o Join([k \in 1..Len(p.pairs) |->
                                p.pairs[k][1] \o "=" \o p.pairs[k][2]], "&"))
       \o (IF p.fragment = "" THEN "" ELSE "#" \o p.fragment)

\* A listing page; an article, twice, the second time without its tracking
\* parameter, its pairs in another order and with a fragment; an article
\* whose query repeats a key, in both orders.
PoolParts == {
    UrlParts("https://a.example/list", << <<"page", "1">> >>, ""),
    UrlParts("https://a.example/view",
             << <<"id", "1">>, <<"x", "2">>, <<"utm_source", "n">> >>, ""),
    UrlParts("https://a.example/view", << <<"x", "2">>, <<"id", "1">> >>, "top"),
    UrlParts("https://b.example/view", << <<"id", "1">>, <<"id", "2">> >>, ""),
    UrlParts("https://b.example/view", << <<"id", "2">>, <<"id", "1">> >>, "") }

\* Five URLs of the shape /category/{numeric}; three pages of one listing.
CategoryParts ==
    [k \in 1..5 |-> UrlParts("https://a.example/category/10" \o Str(k), <<>>, "")]

ListingParts ==
    [k \in 1..3 |-> UrlParts("https://a.example/list", << <<"page", Str(k)>> >>, "")]

Item(url) == [url |-> url, title |-> "t", snippet |-> "s"]

Items(parts) == [k \in 1..Len(parts) |-> Item(RenderUrl(parts[k]))]

FilterPool == {Item(RenderUrl(p)) : p \in PoolParts}

\* The lists of the scenarios, and one with an item that has no URL, an
\* item with an empty one, a page that is neither an article nor a list
\* page, and a system page.
FilterScenarios ==
    {Items(CategoryParts), Items(ListingParts),
     <<[title |-> "t"], Item(""), Item("https://a.example/a/b2"),
       Item("https://b.example/bbs/login.php")>>}

FilterInputs ==
    {FilterEntry(urls, strict, max_per_domain) :
        urls \in SeqsUpTo(FilterPool, MaxItems), strict \in BOOLEAN,
        max_per_domain \in {1, 2}}
    \cup {FilterEntry(urls, strict, 50) : urls \in FilterScenarios, strict \in BOOLEAN}

FilterInit ==
    /\ \E f \in FilterInputs : filter = [c \in Calls |-> IF c = 1 THEN f ELSE Idle]
    /\ classify = Idle /\ parse = Idle /\ cli = Idle
    /\ shape = Idle /\ score = Idle /\ rank = Idle /\ search = Idle /\ brand = Idle

FilterCountStep ==
    /\ \E c \in Calls :
          /\ filter[c].pc = "count"
          /\ filter' = [filter EXCEPT ![c] = CountIteration(filter[c])]
    /\ UNCHANGED <<classify, parse, cli, shape, score, rank, search, brand>>

\* Mutant: the calls under way share one seen-set.
FilterStepShared ==
    /\ \E c \in Calls :
          /\ filter[c].pc = "filter"
          /\ filter' = [filter EXCEPT ![c] =
                 FilterIteration(
                    [filter[c] EXCEPT
                        !.seen = UNION {filter[d].seen :
                                          d \in {e \in Calls : filter[e].pc # "idle"}}])]
    /\ UNCHANGED <<classify, parse, cli, shape, score, rank, search, brand>>

FilterStep ==
    /\ \E c \in Calls :
          /\ filter[c].pc = "filter"
          /\ filter' = [filter EXCEPT ![c] = FilterIteration(filter[c])]
    /\ UNCHANGED <<classify, parse, cli, shape, score, rank, search, brand>>

FilterNext == FilterCountStep \/ FilterStep

SpecFilter == FilterInit /\ [][FilterNext]_vars

(***************************************************************************)
(* main as a state machine                                                 *)
(***************************************************************************)
MaxDomains == 2

DomainPool == {"a.example", "www.a.example", "https://a.example/"}

Hit(link) == [link |-> link, title |-> "t", snippet |-> "s"]

\* What the service answers to the requests of one site_search: an
\* exception, nothing, one page, two pages the second of which repeats a
\* link of the first.
FetchOutcomes == {
    <<Page(TRUE, <<>>)>>,
    <<>>,
    <<Page(FALSE, <<Hit("https://www.a.example/view?id=1")>>)>>,
    <<Page(FALSE, <<Hit("https://www.a.example/view?id=2"),
                    Hit("https://www.a.example/list")>>),
      Page(FALSE, <<Hit("https://www.a.example/view?id=2"),
                    Hit("https://www.a.example/view?id=1")>>)>> }

CliInit ==
    /\ \E k \in 1..MaxDomains, num \in {1, 100}, no_filter \in BOOLEAN :
          \E domains \in [1..k -> DomainPool] :
             cli = CliFrame(domains, num, no_filter)
    /\ classify = Idle /\ parse = Idle /\ filter = Idle
    /\ shape = Idle /\ score = Idle /\ rank = Idle /\ search = Idle /\ brand = Idle

CliStep ==
    /\ cli.pc = "loop"
    /\ cli.i <= Len(cli.domains)
    /\ \E pages \in FetchOutcomes : cli' = CliIteration(cli, pages)
    /\ UNCHANGED <<classify, parse, filter, shape, score, rank, search, brand>>

CliPrint ==
    /\ cli.pc = "loop"
    /\ cli.i > Len(cli.domains)
    /\ cli' = CliOutput(cli)
    /\ UNCHANGED <<classify, parse, filter, shape, score, rank, search, brand>>

CliNext == CliStep \/ CliPrint

SpecCli == CliInit /\ [][CliNext]_vars

(***************************************************************************)
(* Properties of classify_urls                                             *)
(***************************************************************************)
Labels == {"SEO", "POST"}

\* The external call failed: it raised or timed out, answered with a
\* status other than 200, or its body could not be decoded.
Failed(resp) ==
    resp.raises \/ resp.status_code # 200 \/ ~resp.decodes \/ ~resp.has_content

\* The batches of the calls issued so far.
SentBatches == [k \in 1..Len(classify.calls) |-> classify.calls[k].batch]

RECURSIVE Flatten(_)
Flatten(seqs) == IF seqs = <<>> THEN <<>> ELSE Head(seqs) \o Flatten(Tail(seqs))

\* C1: classify_urls is total.  Whatever the external calls do (full,
\* partial or garbage reply, a status other than 200, an exception), it
\* never raises, and the mapping it returns gives every URL of the input
\* list exactly one label, SEO or POST.
ClassifyTotal ==
    /\ classify.pc # "raised"
    /\ classify.pc = "done" =>
          /\ DOMAIN classify.results = Range(classify.urls)
          /\ \A u \in Range(classify.urls) : classify.results[u] \in Labels

\* classify_urls has returned after a call that raised and a call whose
\* reply names none of the items.
ClassifyTotalWitness ==
    /\ classify.pc = "done"
    /\ \E k \in 1..Len(classify.calls) : classify.calls[k].resp.raises
    /\ \E k \in 1..Len(classify.calls) :
          /\ ~Failed(classify.calls[k].resp)
          /\ ~Contains(classify.calls[k].resp.content, "1")

\* C2: when the external call of a batch fails, _classify_batch labels
\* every URL of that batch POST, and classify_urls does not raise: it is at
\* a position from which it goes on (the next iteration or its return),
\* every call made so far having advanced the batch loop by one batch.
FailedBatchAllPost ==
    /\ classify.pc \in {"rules", "batches", "done"}
    /\ classify.pc = "rules" => classify.i \in 1..Len(classify.urls)
    /\ classify.off = Len(classify.calls) * classify.batch_size
    /\ \A k \in 1..Len(classify.calls) :
          Failed(classify.calls[k].resp) =>
             /\ DOMAIN classify.calls[k].ret = Range(classify.calls[k].batch)
             /\ \A u \in Range(classify.calls[k].batch) :
                   classify.calls[k].ret[u] = "POST"

\* classify_urls has returned after a call for a batch of two URLs failed
\* with an undecodable body.
FailedBatchWitness ==
    /\ classify.pc = "done"
    /\ \E k \in 1..Len(classify.calls) :
          /\ ~classify.calls[k].resp.raises
          /\ classify.calls[k].resp.status_code = 200
          /\ ~classify.calls[k].resp.decodes
          /\ Cardinality(Range(classify.calls[k].batch)) = 2

\* C3: a failure is local to its batch.  After a failed call the calls of
\* all later batches are still issued (on return the batches sent are
\* need_ai cut into consecutive pieces), what each call returns is decided
\* by its own batch and its own reply, and the label of a URL is the one
\* returned by the last call whose batch holds it.
FailureIsLocal ==
    /\ \A k \in 1..Len(classify.calls) :
          /\ ~Failed(classify.calls[k].resp) =>
                classify.calls[k].ret =
                   _parse_response(classify.calls[k].batch, classify.calls[k].resp.content)
          /\ \A u \in Range(classify.calls[k].batch) :
                (\A j \in (k + 1)..Len(classify.calls) :
                    u \notin Range(classify.calls[j].batch))
                => classify.results[u] = classify.calls[k].ret[u]
    /\ classify.pc = "done" => Flatten(SentBatches) = classify.need_ai

\* classify_urls has returned; its first call failed and a later call
\* labelled a URL SEO.
FailureIsLocalWitness ==
    /\ classify.pc = "done"
    /\ Len(classify.calls) >= 2
    /\ Failed(classify.calls[1].resp)
    /\ \E k \in 2..Len(classify.calls) :
          \E u \in Range(classify.calls[k].batch) : classify.results[u] = "SEO"

\* What one step of classify_urls does to the frame, as C4 has it.
\* A rule iteration: the URL that Stage 1 matches is labelled POST, also
\* when Stage 2 matches it; the URL that only Stage 2 matches is labelled
\* SEO; either is kept out of need_ai; the URL that neither matches is
\* appended to need_ai and gets no label.  A call: its batch is the next
\* piece of need_ai, and the label of a URL outside need_ai stays as the
\* rule stages set it.  The return: the URLs sent are those of need_ai.
StagesInOrderStep(f, g) ==
    /\ g.i = f.i + 1 =>
          /\ is_obvious_post(f.urls[f.i]) =>
                /\ g.results[f.urls[f.i]] = "POST"
                /\ g.need_ai = f.need_ai
                /\ f.urls[f.i] \notin Range(g.need_ai)
          /\ (~is_obvious_post(f.urls[f.i]) /\ is_obvious_seo(f.urls[f.i])) =>
                /\ g.results[f.urls[f.i]] = "SEO"
                /\ g.need_ai = f.need_ai
                /\ f.urls[f.i] \notin Range(g.need_ai)
          /\ (~is_obvious_post(f.urls[f.i]) /\ ~is_obvious_seo(f.urls[f.i])) =>
                /\ g.need_ai = Append(f.need_ai, f.urls[f.i])
                /\ g.results = f.results
    /\ Len(g.calls) = Len(f.calls) + 1 =>
          /\ g.calls[Len(g.calls)].batch = BatchAt(f.need_ai, f.off, f.batch_size)
          /\ g.calls[Len(g.calls)].batch # <<>>
          /\ \A u \in DOMAIN f.results \ Range(f.need_ai) :
                u \in DOMAIN g.results /\ g.results[u] = f.results[u]
    /\ (f.pc # "done" /\ g.pc = "done") =>
          UNION {Range(g.calls[k].batch) : k \in 1..Len(g.calls)} = Range(g.need_ai)

\* C4: the stages are visited in order.  A URL is sent to the external
\* call exactly when neither Stage 1 nor Stage 2 matches it; a URL that
\* Stage 1 matches is labelled POST and neither Stage 2 nor a call changes
\* that; a URL labelled by Stage 2 is in no batch.
StagesInOrder == [][StagesInOrderStep(classify, classify')]_vars

\* classify_urls has returned; the input held a URL that both rule stages
\* match and that is labelled POST, a URL only Stage 2 matches, and a call
\* was made that answered SEO for every URL of its batch.
StagesInOrderWitness ==
    /\ classify.pc = "done"
    /\ "https://d.example/2024/board.php?bo_table=notice" \in Range(classify.urls)
    /\ "https://d.example/" \in Range(classify.urls)
    /\ \E k \in 1..Len(classify.calls) :
          \A u \in Range(classify.calls[k].batch) : classify.calls[k].ret[u] = "SEO"
    /\ is_obvious_post("https://d.example/2024/board.php?bo_table=notice")
    /\ is_obvious_seo("https://d.example/2024/board.php?bo_table=notice")
    /\ classify.results["https://d.example/2024/board.php?bo_table=notice"] = "POST"
    /\ ~is_obvious_post("https://d.example/") /\ is_obvious_seo("https://d.example/")

\* C5: for the four URLs of the end-to-end scenario the rule stages alone
\* give LISTING, POST, LISTING, POST in that order, and no URL is left
\* for Stage 3.
ScenarioLabels ==
    (classify.urls = ScenarioUrls /\ classify.pc = "done") =>
       /\ classify.need_ai = <<>>
       /\ classify.calls = <<>>
       /\ [k \in 1..4 |-> classify.results[classify.urls[k]]]
             = <<"SEO", "POST", "SEO", "POST">>

\* classify_urls has returned for the scenario's input.
ScenarioWitness == classify.urls = ScenarioUrls /\ classify.pc = "done"

(***************************************************************************)
(* Properties of _parse_response                                           *)
(***************************************************************************)
\* The texts of ReplyLines that hold the token SEO in some case.
TokenTexts == {" SEO", "seo", "SEO", " Seo page"}

\* Line l, with the blanks at its ends removed, starts with "i." or "i ":
\* its number is i, followed by "." or by a blank that text follows.
LineFor(l, i) == l.num = i /\ (l.sep = "." \/ (l.sep = " " /\ l.text # ""))

\* The first line for item i holds the token.
FirstLineHasToken(reply, i) ==
    \E k \in 1..Len(reply) :
       /\ LineFor(reply[k], i)
       /\ \A j \in 1..(k - 1) : ~LineFor(reply[j], i)
       /\ reply[k].text \in TokenTexts

\* C6: _parse_response labels item i SEO exactly when the first line of
\* the reply that, stripped, starts with "i." or "i " holds the token SEO
\* in any case; with no such line, or with that line lacking the token,
\* the label is POST, whatever later lines for the same item say.  The
\* dict returned holds, for each URL, the label of its last item.
FirstLineDecides ==
    parse.pc = "done" =>
       /\ Len(parse.classification) = Len(parse.urls)
       /\ \A i \in 1..Len(parse.urls) :
             /\ parse.classification[i] \in {"SEO", "POST"}
             /\ parse.classification[i] = "SEO" <=> FirstLineHasToken(parse.reply, i)
       /\ DOMAIN parse.results = Range(parse.urls)
       /\ \A i \in 1..Len(parse.urls) :
             (\A j \in (i + 1)..Len(parse.urls) : parse.urls[j] # parse.urls[i]) =>
                parse.results[parse.urls[i]] = parse.classification[i]

\* A call has returned whose reply held, for item 1, a first line without
\* the token and a later line with it, and for item 2 a line with the
\* token in lower case after leading blanks: item 1 is POST, item 2 SEO.
FirstLineDecidesWitness ==
    /\ parse.pc = "done"
    /\ Len(parse.urls) = 2 /\ parse.urls[1] # parse.urls[2]
    /\ parse.reply = <<Line("  ", 1, ".", " POST"), Line("", 1, ".", " SEO"),
                       Line("\t", 2, ".", " Seo page")>>
    /\ parse.results[parse.urls[1]] = "POST"
    /\ parse.results[parse.urls[2]] = "SEO"

(***************************************************************************)
(* Properties of filter_urls                                               *)
(***************************************************************************)
\* The calls of filter_urls under way or returned.
Running == {c \in Calls : filter[c].pc # "idle"}

\* The iterations of the second loop that appended to filtered, in order.
Kept(f) == SelectSeq(f.log, LAMBDA e : e.verdict = "kept")

\* filtered holds the URLs of those iterations.
FilteredIsKept(f) ==
    /\ Len(f.filtered) = Len(Kept(f))
    /\ \A k \in 1..Len(f.filtered) : f.filtered[k].url = Kept(f)[k].url

\* C7: for every host, the number of entries of the output whose host is
\* that host (the netloc of the entry's URL, as filter_urls reads it) is at
\* most max_per_domain, whatever the other items of the input.
CapRespected ==
    \A c \in Running :
       /\ FilteredIsKept(filter[c])
       /\ \A h \in {Kept(filter[c])[k].domain : k \in 1..Len(Kept(filter[c]))} :
             Cardinality({k \in 1..Len(Kept(filter[c])) : Kept(filter[c])[k].domain = h})
                <= filter[c].max_per_domain

\* A call with max_per_domain = 1 has returned an entry of each of two
\* hosts, after an iteration was cut short by the cap of one of them.
CapRespectedWitness ==
    /\ filter[1].pc = "done"
    /\ filter[1].max_per_domain = 1
    /\ \E i \in 1..Len(filter[1].log) : filter[1].log[i].verdict = "cap"
    /\ Len(filter[1].filtered) = 2
    /\ urlparse(filter[1].filtered[1].url).netloc = "a.example"
    /\ urlparse(filter[1].filtered[2].url).netloc = "b.example"

\* The keys that _normalize_url removes from the pairs of a URL.
TrackingKeys == {"utm_source"}

NonTracking(p) == SelectSeq(p.pairs, LAMBDA kv : kv[1] \notin TrackingKeys)

Occurrences(seq, x) == Cardinality({k \in 1..Len(seq) : seq[k] = x})

\* Two URLs differ at most in their tracking parameters, in the order of
\* their query pairs and in their fragment.
SameButTrackingOrderFragment(p, q) ==
    /\ p.base = q.base
    /\ \A kv \in Range(NonTracking(p)) \cup Range(NonTracking(q)) :
          Occurrences(NonTracking(p), kv) = Occurrences(NonTracking(q), kv)

\* No key is in two pairs of the URL.
NoKeyRepeated(p) ==
    \A j, k \in 1..Len(NonTracking(p)) :
       NonTracking(p)[j][1] = NonTracking(p)[k][1] => j = k

AllParts == PoolParts \cup Range(CategoryParts) \cup Range(ListingParts)

\* The parts of the URLs of the inputs.
PartsOf == [u \in {RenderUrl(p) : p \in AllParts} |->
               CHOOSE p \in AllParts : RenderUrl(p) = u]

\* Items i and j of the input, both appended to the output.
BothKept(f, i, j) ==
    /\ i < j /\ j <= Len(f.log)
    /\ f.log[i].verdict = "kept" /\ f.log[j].verdict = "kept"

\* C8 as stated: no two entries of the output have the same normalized
\* key, and two input URLs that differ only in tracking parameters,
\* query-parameter order or fragment yield at most one output entry.
OneEntryPerKeyAnyQuery ==
    \A c \in Running :
       /\ \A i, j \in 1..Len(filter[c].log) :
             BothKept(filter[c], i, j) =>
                filter[c].log[i].normalized # filter[c].log[j].normalized
       /\ \A i, j \in 1..Len(filter[c].log) :
             (/\ BothKept(filter[c], i, j)
              /\ filter[c].urls[i].url \in DOMAIN PartsOf
              /\ filter[c].urls[j].url \in DOMAIN PartsOf) =>
                ~SameButTrackingOrderFragment(PartsOf[filter[c].urls[i].url],
                                              PartsOf[filter[c].urls[j].url])

\* C8, amended: no two entries of the output have the same normalized key,
\* and two input URLs in whose query no key is repeated and that differ
\* only in tracking parameters, query-parameter order or fragment yield at
\* most one output entry.
OneEntryPerKey ==
    \A c \in Running :
       /\ FilteredIsKept(filter[c])
       /\ \A i, j \in 1..Len(filter[c].log) :
             BothKept(filter[c], i, j) =>
                filter[c].log[i].normalized # filter[c].log[j].normalized
       /\ \A i, j \in 1..Len(filter[c].log) :
             (/\ BothKept(filter[c], i, j)
              /\ filter[c].urls[i].url \in DOMAIN PartsOf
              /\ filter[c].urls[j].url \in DOMAIN PartsOf
              /\ NoKeyRepeated(PartsOf[filter[c].urls[i].url])) =>
                ~SameButTrackingOrderFragment(PartsOf[filter[c].urls[i].url],
                                              PartsOf[filter[c].urls[j].url])

\* A call has returned whose input held an article and, later, the same
\* article without its tracking parameter, its pairs in another order and
\* with a fragment: the first is in the output, the second was dropped as
\* a duplicate.
OneEntryPerKeyWitness ==
    /\ filter[1].pc = "done"
    /\ \E i, j \in 1..Len(filter[1].log) :
          /\ i < j
          /\ filter[1].log[i].verdict = "kept"
          /\ filter[1].log[j].verdict = "duplicate"
          /\ filter[1].urls[i].url # filter[1].urls[j].url
          /\ NoKeyRepeated(PartsOf[filter[1].urls[i].url])
          /\ SameButTrackingOrderFragment(PartsOf[filter[1].urls[i].url],
                                          PartsOf[filter[1].urls[j].url])
          /\ _normalize_url(filter[1].log[i].url) = filter[1].log[j].normalized

\* The number of items of the input whose structure is that of item i.
StructureCount(f, i) ==
    Cardinality({j \in 1..Len(f.structures) :
                    f.structures[j] # "" /\ f.structures[j] = f.structures[i]})

\* C10: an item that is not a system URL and whose structure is that of at
\* least 3 items of the input is an article (is_article is true) when the
\* second loop classifies it, and is appended to the output, in strict
\* mode too and also when it has no wr_id, no content identifier and is a
\* list page.
FrequencyRule ==
    \A c \in Running :
       \A i \in 1..Len(filter[c].log) :
          (/\ filter[c].log[i].verdict \in {"list", "strict", "kept"}
           /\ StructureCount(filter[c], i) >= 3) =>
             /\ filter[c].log[i].is_article
             /\ filter[c].log[i].verdict = "kept"

\* A call in strict mode has returned the three pages of a listing, none
\* with a wr_id or a content identifier and each a list page: all three
\* are in the output, as articles.
FrequencyRuleWitness ==
    /\ filter[1].pc = "done"
    /\ filter[1].strict
    /\ filter[1].urls = Items(ListingParts)
    /\ Len(filter[1].filtered) = 3
    /\ \A k \in 1..3 :
          /\ filter[1].log[k].is_article
          /\ ~_has_content_identifier(filter[1].filtered[k].url)
          /\ _is_list_page(filter[1].filtered[k].url)
          /\ ~_is_system_url(filter[1].filtered[k].url)
          /\ _get_url_structure(filter[1].filtered[k].url) = filter[1].structures[k]

(***************************************************************************)
(* Properties of main                                                      *)
(***************************************************************************)
\* C9: in a run over several domains, no URL is twice in the combined
\* output of all domains, also when the service returns one URL for the
\* queries of two domains.
NoUrlTwice ==
    cli.pc = "done" =>
       \A j, k \in 1..Len(cli.out) : cli.out[j] = cli.out[k] => j = k

\* A run over two domains has ended in which the service returned one URL
\* for both queries.
NoUrlTwiceWitness ==
    /\ cli.pc = "done"
    /\ Len(cli.results) = 2
    /\ \E u \in Range(cli.out) :
          \A d \in 1..2 : \E k \in 1..Len(cli.results[d][2]) : cli.results[d][2][k].url = u


(***************************************************************************)
(* filter._get_url_structure called on its own: a URL of a host, a path    *)
(* of up to MaxSegments segments some of which are all-digit, and a tail;  *)
(* the same URL with other digits; the same URL with one of the all-digit  *)
(* segments replaced by a segment that is not all-digit.                   *)
(***************************************************************************)
MaxSegments == 2

DigitSlot == "<digits>"

FixedSegments == {"post", "board.php", "free"}

DigitValues == {"123", "456"}

\* A word with a hyphen, a long slug, a token of eight letters, digits with
\* a letter, digits before .php, Hangul, the text of the placeholder, and
\* digits followed by a parameter of the segment.
OtherSegments ==
    {"abc-def", "some-long-slug", "abcdefgh", "12a", "123.php", "\f\f", "{id}",
     "456;x"}

\* A segment of letters, digits, Hangul, "-", "_" and "."
PlainSegment(seg) ==
    \A i \in 1..Len(seg) :
        \/ IsAlpha(Char(seg, i)) \/ IsDigit(Char(seg, i)) \/ IsHangul(Char(seg, i))
        \/ Char(seg, i) \in {"-", "_", "."}

Tails == {"", "/", "?b=1&a=2"}

Slots(path) == {k \in 1..Len(path) : path[k] = DigitSlot}

ShapeUrl(path, values, tail) ==
    "https://d.example/"
       \o Join([k \in 1..Len(path) |->
                   IF k \in DOMAIN values THEN values[k] ELSE path[k]], "/")
       \o tail

ShapeFrame(path, tail) ==
    [pc |-> "digits", path |-> path, tail |-> tail,
     first |-> <<>>, differ |-> {}, a |-> "", b |-> "", seg |-> "", c |-> ""]

ShapeInit ==
    /\ shape \in {ShapeFrame(path, tail) :
                     path \in {q \in SeqsUpTo(FixedSegments \cup {DigitSlot}, MaxSegments) :
                                  Slots(q) # {}},
                     tail \in Tails}
    /\ classify = Idle /\ parse = Idle /\ filter = Idle /\ cli = Idle
    /\ score = Idle /\ rank = Idle /\ search = Idle /\ brand = Idle

\* Two URLs that differ only in the values of the all-digit segments.
ShapeDigits ==
    /\ shape.pc = "digits"
    /\ \E first, second \in [Slots(shape.path) -> DigitValues] :
          shape' = [shape EXCEPT
                      !.pc = "replace",
                      !.first = first,
                      !.differ = {k \in Slots(shape.path) : first[k] # second[k]},
                      !.a = _get_url_structure(ShapeUrl(shape.path, first, shape.tail)),
                      !.b = _get_url_structure(ShapeUrl(shape.path, second, shape.tail))]
    /\ UNCHANGED <<classify, parse, filter, cli, score, rank, search, brand>>

\* The first URL with the all-digit segment at k replaced by seg.
ShapeReplace ==
    /\ shape.pc = "replace"
    /\ \E k \in Slots(shape.path), seg \in OtherSegments :
          shape' = [shape EXCEPT
                      !.pc = "done",
                      !.seg = seg,
                      !.c = _get_url_structure(
                               ShapeUrl(shape.path, (k :> seg) @@ shape.first,
                                        shape.tail))]
    /\ UNCHANGED <<classify, parse, filter, cli, score, rank, search, brand>>

ShapeNext == ShapeDigits \/ ShapeReplace

SpecShape == ShapeInit /\ [][ShapeNext]_vars

(***************************************************************************)
(* C11: _get_url_structure gives two URLs that differ only in the values   *)
(* of all-digit path segments the same signature, and gives a different    *)
(* signature when such a segment is replaced by a segment that is not all  *)
(* digits and is made of letters, digits, "-", "_" and "." only.           *)
(***************************************************************************)
ShapeCollapse ==
    /\ shape.pc \in {"replace", "done"} => shape.a = shape.b
    /\ shape.pc = "done" /\ PlainSegment(shape.seg) => shape.c # shape.a

\* The statement for every segment that is not all digits.
ShapeCollapseAnySegment ==
    /\ shape.pc \in {"replace", "done"} => shape.a = shape.b
    /\ shape.pc = "done" => shape.c # shape.a

\* /post/123 against /post/456, and against /post/abc-def.
ShapeCollapseWitness ==
    /\ shape.pc = "done"
    /\ shape.path = <<"post", DigitSlot>>
    /\ shape.tail = ""
    /\ shape.differ = {2}
    /\ shape.seg = "abc-def"
    /\ shape.a = "d.example/post/{id}?"
    /\ shape.c = "d.example/post/abc-def?"

(***************************************************************************)
(* ai_filter.calculate_score called on its own: on a base URL with up to   *)
(* MaxPairs query pairs, then on the same URL with one more pair whose key *)
(* is a pagination key.                                                    *)
(***************************************************************************)
MaxPairs == 2

ScorePaths == {"", "/about", "/bbs/board.php", "/mt/5733"}

\* Pairs a base URL may hold: a board, an article id, pagination keys with
\* a value, and one without.
ScorePairs ==
    {<<"bo_table", "notice">>, <<"wr_id", "5">>, <<"page", "2">>, <<"sod", "desc">>,
     <<"stx", "">>}

ScoreTexts == {<<"t", "s">>, <<"Main", "about us">>}

ScoreFrame(path, pairs, text) ==
    [pc |-> "base", path |-> path, pairs |-> pairs, title |-> text[1],
     snippet |-> text[2], base |-> 0, key |-> "", value |-> "", attached |-> 0]

ScoreInit ==
    /\ score \in {ScoreFrame(path, pairs, text) :
                     path \in ScorePaths, pairs \in SeqsUpTo(ScorePairs, MaxPairs),
                     text \in ScoreTexts}
    /\ classify = Idle /\ parse = Idle /\ filter = Idle /\ cli = Idle
    /\ shape = Idle /\ rank = Idle /\ search = Idle /\ brand = Idle

ScoreUrl(f, pairs) == RenderUrl(UrlParts("https://d.example" \o f.path, pairs, ""))

ScoreBase ==
    /\ score.pc = "base"
    /\ score' = [score EXCEPT
                    !.pc = "attach",
                    !.base = calculate_score(ScoreUrl(score, score.pairs),
                                             score.title, score.snippet)]
    /\ UNCHANGED <<classify, parse, filter, cli, shape, rank, search, brand>>

\* The same URL with the pair key=value attached to its query.
ScoreAttach ==
    /\ score.pc = "attach"
    /\ \E k \in 1..Len(filter_params), value \in {"1", ""} :
          score' = [score EXCEPT
                      !.pc = "done",
                      !.key = filter_params[k],
                      !.value = value,
                      !.attached =
                          calculate_score(
                              ScoreUrl(score, Append(score.pairs,
                                                     <<filter_params[k], value>>)),
                              score.title, score.snippet)]
    /\ UNCHANGED <<classify, parse, filter, cli, shape, rank, search, brand>>

ScoreNext == ScoreBase \/ ScoreAttach

SpecScore == ScoreInit /\ [][ScoreNext]_vars

\* The base URL holds a pagination key with a value.
Paginated(pairs) ==
    \E i \in 1..Len(pairs), k \in 1..Len(filter_params) :
        pairs[i][1] = filter_params[k] /\ pairs[i][2] # ""

(***************************************************************************)
(* C12: for a base URL whose query holds no pagination key with a value,   *)
(* the score of the URL with a pagination key attached (with a value) is   *)
(* strictly lower than the score of the base URL.                          *)
(***************************************************************************)
PenaltyLowers ==
    score.pc = "done" /\ ~Paginated(score.pairs) /\ score.value # ""
        => score.attached < score.base

\* The statement for every base URL and every attached pair.
PenaltyLowersAnyBase ==
    score.pc = "done" => score.attached < score.base

\* /bbs/board.php?bo_table=notice (score 40) with sod attached (score -40).
PenaltyLowersWitness ==
    /\ score.pc = "done"
    /\ score.path = "/bbs/board.php"
    /\ score.pairs = << <<"bo_table", "notice">> >>
    /\ score.key = "sod"
    /\ score.value = "1"
    /\ score.base = score.attached + 80

(***************************************************************************)
(* ai_filter.py: smart_filter_urls                                         *)
(*                                                                         *)
(* top_n is <<>> for None and <<n>> for the integer n.                     *)
(***************************************************************************)
\* {**item, "_score": score}
WithScore(item, s) == ("_score" :> s) @@ item

\* {k: v for k, v in item.items() if k != "_score"}
WithoutScore(item) == [k \in DOMAIN item \ {"_score"} |-> item[k]]

ItemScore(item) ==
    calculate_score(ItemGet(item, "url"), ItemGet(item, "title"),
                    ItemGet(item, "snippet"))

\* scored after the loop of lines 124-141
RECURSIVE Scored(_, _)
Scored(urls, min_score) ==
    IF urls = <<>> THEN <<>>
    ELSE LET Keep(item, s) ==
                 IF s >= min_score THEN <<WithScore(item, s)>> ELSE <<>>
         IN  Keep(Head(urls), ItemScore(Head(urls))) \o Scored(Tail(urls), min_score)

Without(seq, k) == SubSeq(seq, 1, k - 1) \o SubSeq(seq, k + 1, Len(seq))

\* Mutant: sorted by ascending score.
RECURSIVE SortAscending(_)
SortAscending(scored) ==
    IF scored = <<>> THEN <<>>
    ELSE LET At(k) == <<scored[k]>> \o SortAscending(Without(scored, k))
             Least(s) == At(Min({i \in 1..Len(scored) : scored[i]["_score"] = s}))
         IN  Least(Min({scored[i]["_score"] : i \in 1..Len(scored)}))

\* Mutant: sorted by ascending score, then reversed: ties change places.
RECURSIVE SortThenReverse(_)
SortThenReverse(scored) ==
    IF scored = <<>> THEN <<>>
    ELSE LET At(k) == <<scored[k]>> \o SortThenReverse(Without(scored, k))
             Best(s) == At(Max({i \in 1..Len(scored) : scored[i]["_score"] = s}))
         IN  Best(Max({scored[i]["_score"] : i \in 1..Len(scored)}))

\* scored.sort(key=lambda x: x["_score"], reverse=True): list.sort is
\* stable, also with reverse=True, so of the items with the highest score
\* the first comes first.
RECURSIVE SortByScore(_)
SortByScore(scored) ==
    IF scored = <<>> THEN <<>>
    ELSE LET At(k) == <<scored[k]>> \o SortByScore(Without(scored, k))
             Best(s) == At(Min({i \in 1..Len(scored) : scored[i]["_score"] = s}))
         IN  Best(Max({scored[i]["_score"] : i \in 1..Len(scored)}))

\* seq[:n]
Slice(seq, n) ==
    IF n >= 0 THEN SubSeq(seq, 1, Min({n, Len(seq)}))
    ELSE SubSeq(seq, 1, Max({Len(seq) + n, 0}))

\* if top_n: scored = scored[:top_n]
TopN(scored, top_n) ==
    IF top_n # <<>> /\ top_n[1] # 0 THEN Slice(scored, top_n[1]) ELSE scored

\* Mutant: the list is cut to top_n before it is sorted.
smart_filter_urls_cut_first(urls, min_score, top_n) ==
    LET Return(scored) == [k \in 1..Len(scored) |-> WithoutScore(scored[k])]
    IN  Return(SortByScore(TopN(Scored(urls, min_score), top_n)))

smart_filter_urls(urls, min_score, top_n) ==
    LET Return(scored) == [k \in 1..Len(scored) |-> WithoutScore(scored[k])]
    IN  Return(TopN(SortByScore(Scored(urls, min_score)), top_n))

(***************************************************************************)
(* smart_filter_urls called on a list of up to MaxHits hits, then on its   *)
(* own output, then on the hits in another order.                          *)
(***************************************************************************)
MaxHits == 2

\* Two pages of equal score, the second with a "_score" of its own, and an
\* article without a snippet.
RankPool ==
    {Item("https://d.example/about"),
     [url |-> "https://d.example/notice", title |-> "t", snippet |-> "s", _score |-> 7],
     [url |-> "https://d.example/mt/5733", title |-> "t"]}

RankFrame(urls, min_score, top_n) ==
    [pc |-> "call", urls |-> urls, min_score |-> min_score, top_n |-> top_n,
     scores |-> <<>>, out |-> <<>>, again |-> <<>>, order |-> <<>>,
     permuted |-> <<>>]

RankInit ==
    /\ rank \in {RankFrame(urls, min_score, top_n) :
                    urls \in SeqsUpTo(RankPool, MaxHits), min_score \in {0, -20},
                    top_n \in {<<>>, <<0>>, <<1>>, <<2>>, <<-1>>}}
    /\ classify = Idle /\ parse = Idle /\ filter = Idle /\ cli = Idle
    /\ shape = Idle /\ score = Idle /\ search = Idle /\ brand = Idle

\* The call; scores holds the value of score in each iteration of the loop.
RankCall ==
    /\ rank.pc = "call"
    /\ rank' = [rank EXCEPT
                   !.pc = "again",
                   !.scores = [k \in 1..Len(rank.urls) |-> ItemScore(rank.urls[k])],
                   !.out = smart_filter_urls(rank.urls, rank.min_score, rank.top_n)]
    /\ UNCHANGED <<classify, parse, filter, cli, shape, score, search, brand>>

\* The call on the output of the first call.
RankAgain ==
    /\ rank.pc = "again"
    /\ rank' = [rank EXCEPT
                   !.pc = "permute",
                   !.again = smart_filter_urls(rank.out, rank.min_score, rank.top_n)]
    /\ UNCHANGED <<classify, parse, filter, cli, shape, score, search, brand>>

\* The call on the hits of the first call in the order p.
RankPermuted ==
    /\ rank.pc = "permute"
    /\ \E p \in Permutations(1..Len(rank.urls)) :
          rank' = [rank EXCEPT
                      !.pc = "done",
                      !.order = p,
                      !.permuted = smart_filter_urls(
                                      [k \in 1..Len(rank.urls) |-> rank.urls[p[k]]],
                                      rank.min_score, rank.top_n)]
    /\ UNCHANGED <<classify, parse, filter, cli, shape, score, search, brand>>

RankNext == RankCall \/ RankAgain \/ RankPermuted

SpecRank == RankInit /\ [][RankNext]_vars

\* The hits of the input that the loop keeps: the positions with a score of
\* at least min_score.
Retained(f) == {i \in 1..Len(f.urls) : f.scores[i] >= f.min_score}

About == Item("https://d.example/about")

Notice == [url |-> "https://d.example/notice", title |-> "t", snippet |-> "s", _score |-> 7]

Article == [url |-> "https://d.example/mt/5733", title |-> "t"]

(***************************************************************************)
(* C13: for top_n None or at least 0, smart_filter_urls applied to its own *)
(* output with the same min_score and top_n returns that output again,     *)
(* same items in the same order.                                           *)
(***************************************************************************)
RankIdempotent ==
    /\ rank.pc \in {"permute", "done"}
    /\ rank.top_n = <<>> \/ rank.top_n[1] >= 0
    => rank.again = rank.out

\* The statement for every top_n.
RankIdempotentAnyTopN ==
    rank.pc \in {"permute", "done"} => rank.again = rank.out

\* An article before a page, both kept: the output has them in the other
\* order and is returned as it is by the second call.
RankIdempotentWitness ==
    /\ rank.pc = "permute"
    /\ rank.urls = <<Article, About>>
    /\ rank.min_score = -20
    /\ rank.top_n = <<2>>
    /\ rank.out = <<About, Article>>
    /\ rank.again = rank.out

(***************************************************************************)
(* C14: the output of smart_filter_urls holds retained hits of the input,  *)
(* each once, in non-increasing order of score, two hits of equal score in *)
(* the order they have in the input; without top_n it holds all of them.   *)
(***************************************************************************)
SortedStable ==
    rank.pc # "call" =>
        /\ \E p \in [1..Len(rank.out) -> Retained(rank)] :
              \A j \in 1..Len(rank.out) :
                  /\ rank.out[j] = WithoutScore(rank.urls[p[j]])
                  /\ \A k \in (j + 1)..Len(rank.out) :
                        /\ rank.scores[p[j]] >= rank.scores[p[k]]
                        /\ rank.scores[p[j]] = rank.scores[p[k]] => p[j] < p[k]
        /\ rank.top_n = <<>> => Len(rank.out) = Cardinality(Retained(rank))

\* Two pages of score 35 keep their order, in either order of the input.
SortedStableWitness ==
    /\ rank.pc = "done"
    /\ rank.urls = <<Notice, About>>
    /\ rank.scores = <<35, 35>>
    /\ rank.top_n = <<>>
    /\ rank.out = <<WithoutScore(Notice), About>>
    /\ rank.order = <<2, 1>>
    /\ rank.permuted = <<About, WithoutScore(Notice)>>

(***************************************************************************)
(* C15: with top_n an integer of at least 0, the output of                 *)
(* smart_filter_urls has at most top_n items: top_n of the retained hits   *)
(* (all of them when they are fewer), none of the others having a higher   *)
(* score than any of them.                                                 *)
(***************************************************************************)
TopNRespected ==
    rank.pc # "call" /\ rank.top_n # <<>> /\ rank.top_n[1] >= 0 =>
        /\ Len(rank.out) = Min({rank.top_n[1], Cardinality(Retained(rank))})
        /\ \E p \in [1..Len(rank.out) -> Retained(rank)] :
              /\ \A j, k \in 1..Len(rank.out) : p[j] = p[k] => j = k
              /\ \A j \in 1..Len(rank.out) :
                    /\ rank.out[j] = WithoutScore(rank.urls[p[j]])
                    /\ \A i \in Retained(rank) \ {p[k] : k \in 1..Len(rank.out)} :
                          rank.scores[i] <= rank.scores[p[j]]

\* top_n = 0 and a hit that is retained.
TopNRespectedWitness ==
    /\ rank.pc # "call"
    /\ rank.top_n = <<0>>
    /\ rank.urls = <<About>>
    /\ rank.out = <<About>>

\* No two different hits that the loop keeps have the same score.
NoTies(f) ==
    \A i, j \in Retained(f) : f.urls[i] # f.urls[j] => f.scores[i] # f.scores[j]

(***************************************************************************)
(* C16: when no two different retained hits have the same score, the       *)
(* output of smart_filter_urls is the same list for every order of the     *)
(* same input hits.                                                        *)
(***************************************************************************)
OrderIndependent ==
    rank.pc = "done" /\ NoTies(rank) => rank.permuted = rank.out

\* The statement for every input.
OrderIndependentAnyInput ==
    rank.pc = "done" => rank.permuted = rank.out

\* An article and a page, in both orders, cut to the best one.
OrderIndependentWitness ==
    /\ rank.pc = "done"
    /\ rank.urls = <<Article, About>>
    /\ rank.min_score = -20
    /\ rank.top_n = <<1>>
    /\ rank.order = <<2, 1>>
    /\ rank.out = <<About>>
    /\ rank.permuted = <<About>>

(***************************************************************************)
(* SerperClient.site_search, request by request: the service answers each  *)
(* request with an exception or with a page of up to MaxOrganic items.     *)
(***************************************************************************)
MaxOrganic == 2

SearchFrame(num_results) ==
    [pc |-> "loop", num_results |-> num_results, all_results |-> <<>>,
     seen_urls |-> {}, page |-> 1, new_count |-> 0, exc |-> FALSE,
     log |-> <<>>, ret |-> <<>>]

\* The condition of the while loop (line 36)
SearchMore(f) ==
    /\ Len(f.all_results) < f.num_results
    /\ f.page <= (f.num_results + per_page - 1) \div per_page

\* What the log keeps of a request: the page asked for, whether the request
\* raised, the length of organic and the value of new_count after the page.
Request(page, answer, new_count) ==
    [page |-> page, raised |-> answer.raises, organic |-> Len(answer.organic),
     new_count |-> new_count]

\* Mutant: a page without a new URL does not end the loop.
SearchIterationNoBreak(f, answer) ==
    LET Logged(g) == [g EXCEPT !.log = Append(@, Request(f.page, answer, g.new_count))]
        Added(t) == Logged([t EXCEPT !.page = @ + 1])
    IN  IF answer.raises THEN Logged([f EXCEPT !.pc = "raised", !.exc = TRUE])
        ELSE IF answer.organic = <<>> THEN Logged([f EXCEPT !.pc = "break", !.new_count = 0])
        ELSE Added(AddNew([f EXCEPT !.new_count = 0], answer.organic))

\* Mutant: seen_urls is emptied before every page.
SearchIterationFreshSeen(f, answer) ==
    LET Logged(g) == [g EXCEPT !.log = Append(@, Request(f.page, answer, g.new_count))]
        Added(t) ==
            Logged(IF t.new_count = 0 THEN [t EXCEPT !.pc = "break"]
                   ELSE [t EXCEPT !.page = @ + 1])
    IN  IF answer.raises THEN Logged([f EXCEPT !.pc = "raised", !.exc = TRUE])
        ELSE IF answer.organic = <<>> THEN Logged([f EXCEPT !.pc = "break", !.new_count = 0])
        ELSE Added(AddNew([f EXCEPT !.new_count = 0, !.seen_urls = {}], answer.organic))

\* One iteration of the while loop (lines 37-72), the service answering
\* with answer.
SearchIteration(f, answer) ==
    LET Logged(g) == [g EXCEPT !.log = Append(@, Request(f.page, answer, g.new_count))]
        Added(t) ==
            Logged(IF t.new_count = 0 THEN [t EXCEPT !.pc = "break"]
                   ELSE [t EXCEPT !.page = @ + 1])
    IN  IF answer.raises THEN Logged([f EXCEPT !.pc = "raised", !.exc = TRUE])
        ELSE IF answer.organic = <<>> THEN Logged([f EXCEPT !.pc = "break", !.new_count = 0])
        ELSE Added(AddNew([f EXCEPT !.new_count = 0], answer.organic))

\* return all_results[:num_results] (line 74)
SearchResult(f) ==
    [f EXCEPT !.pc = "done", !.ret = Slice(f.all_results, f.num_results)]

\* Three links, an empty link and an item without link.
LinkPool ==
    {Hit("https://a.example/1"), Hit("https://a.example/2"),
     Hit("https://a.example/3"), Hit(""), [title |-> "t"]}

SearchAnswers ==
    {Page(TRUE, <<>>)} \cup {Page(FALSE, organic) : organic \in SeqsUpTo(LinkPool, MaxOrganic)}

SearchInit ==
    /\ search \in {SearchFrame(num_results) : num_results \in {-5, 0, 1, 10, 11, 25}}
    /\ classify = Idle /\ parse = Idle /\ filter = Idle /\ cli = Idle
    /\ shape = Idle /\ score = Idle /\ rank = Idle /\ brand = Idle

SearchRequest ==
    /\ search.pc = "loop"
    /\ SearchMore(search)
    /\ \E answer \in SearchAnswers : search' = SearchIteration(search, answer)
    /\ UNCHANGED <<classify, parse, filter, cli, shape, score, rank, brand>>

SearchReturn ==
    /\ \/ search.pc = "loop" /\ ~SearchMore(search)
       \/ search.pc = "break"
    /\ search' = SearchResult(search)
    /\ UNCHANGED <<classify, parse, filter, cli, shape, score, rank, brand>>

SearchNext == SearchRequest \/ SearchReturn

SpecSearch == SearchInit /\ [][SearchNext]_vars

\* The call runs on: a request is answered, and the function goes on.
FairSpecSearch == SpecSearch /\ WF_vars(SearchNext)

\* The smallest k with d * k >= n
CeilDiv(n, d) ==
    CHOOSE k \in -(n * n + 1)..(n * n + 1) : d * k >= n /\ d * (k - 1) < n

\* The page of a request was empty or held no new URL.
Unproductive(r) == ~r.raised /\ (r.organic = 0 \/ r.new_count = 0)

SearchSafe ==
    /\ Len(search.log) <= CeilDiv(search.num_results, 10)
    /\ \A i \in 1..(Len(search.log) - 1) :
          ~search.log[i].raised /\ ~Unproductive(search.log[i])
    /\ search.pc = "loop" /\ search.log # <<>> => ~Unproductive(Last(search.log))

(***************************************************************************)
(* C17: site_search ends, by return or by exception, whatever the service  *)
(* answers; it makes at most ceil(num_results / 10) requests, and none     *)
(* after the first page that is empty or holds no new URL.                 *)
(***************************************************************************)
SearchTerminates ==
    /\ []SearchSafe
    /\ <>(search.pc \in {"done", "raised"})

\* Three requests for 25 results, the third page without a new URL.
SearchTerminatesWitness ==
    /\ search.pc = "done"
    /\ search.num_results = 25
    /\ Len(search.log) = 3
    /\ Unproductive(search.log[3])
    /\ Len(search.ret) = 3

\* The fetch k is the last one made for its domain.
LastFetch(f, k) ==
    \A j \in (k + 1)..Len(f.fetched) : f.fetched[j].domain # f.fetched[k].domain

\* Every item of the sequence part is an item of the sequence whole.
ItemsOf(part, whole) ==
    \A j \in 1..Len(part) : \E k \in 1..Len(whole) : part[j] = whole[k]

(***************************************************************************)
(* C18: the loop of cli.main makes one fetch for every domain in turn,     *)
(* also after a fetch that raised; the result of a domain whose (last)     *)
(* fetch raised is the empty list, and the result of any other domain is   *)
(* the list fetched for it, filtered unless --no-filter is given.          *)
(***************************************************************************)
FetchFailureIsLocal ==
    /\ Len(cli.fetched) = cli.i - 1
    /\ cli.pc = "done" => Len(cli.fetched) = Len(cli.domains)
    /\ \A k \in 1..Len(cli.fetched) :
          LET fetch == cli.fetched[k]
          IN  /\ fetch.domain = DomainName(cli.domains[k])
              /\ LastFetch(cli, k) =>
                    /\ fetch.domain \in Keys(cli.results)
                    /\ fetch.exc => Get(cli.results, fetch.domain) = <<>>
                    /\ ~fetch.exc /\ cli.no_filter =>
                          Get(cli.results, fetch.domain) = fetch.raw
                    /\ ~fetch.exc /\ ~cli.no_filter =>
                          ItemsOf(Get(cli.results, fetch.domain), fetch.raw)

\* The fetch of the first domain raised, the second domain has its hit.
FetchFailureIsLocalWitness ==
    /\ cli.pc = "done"
    /\ cli.domains = <<"a.example", "www.a.example">>
    /\ ~cli.no_filter
    /\ cli.fetched[1].exc
    /\ ~cli.fetched[2].exc
    /\ cli.results = << <<"a.example", <<>> >>,
                        <<"www.a.example",
                          <<[url |-> "https://www.a.example/view?id=1",
                             title |-> "t", snippet |-> "s"]>> >> >>

(***************************************************************************)
(* brand_search.py: BrandSearcher.get_site_title                           *)
(*                                                                         *)
(* None is the empty string: no function of this part returns "".  The     *)
(* functions tell Hangul words apart, so the syllables of the model's      *)
(* titles have a stand-in of their own each; an entry of a list or of a    *)
(* character class written with other characters (other syllables, the     *)
(* full-width brackets) matches no text of the model and is left out.      *)
(* best_score is kept doubled, so that score * 1.5 is an integer.          *)
(***************************************************************************)
None == ""

KoTo == "@"     \* U+D1A0

KoSin == "+"    \* U+C2E0

KoGo == "="     \* U+ACE0

KoNeun == "!"   \* U+B294

KoKi == "&"     \* U+D0A4

\* re.sub(r'^[chars]+', '', re.sub(r'[chars]+$', '', s))
StripChars(s, chars) ==
    LET keep == {i \in 1..Len(s) : Char(s, i) \notin chars}
    IN  IF keep = {} THEN "" ELSE SubSeq(s, Min(keep), Max(keep))

\* text.split()[0], for a text that does not start with whitespace
FirstWord(text) ==
    LET blank == {i \in 1..Len(text) : Char(text, i) \in Whitespace}
    IN  IF blank = {} THEN text ELSE SubSeq(text, 1, Min(blank) - 1)

\* BrandSearcher._clean_brand_name
_clean_brand_name(text) ==
    LET Again(t) == StripChars(t, Whitespace \cup {"-", "|", ":", "[", "]"})
        Shorten(t) == Again(IF Len(t) > 15 /\ t # "" THEN FirstWord(t) ELSE t)
        Stripped(t) == IF Contains(t, "...") THEN None ELSE Shorten(t)
    IN  IF text = "" THEN None
        ELSE Stripped(StripChars(text, Whitespace \cup {"-", "|", ":", "[", "]", "(", ")"}))

generic_words == {KoTo \o KoTo}

bad_brands == {KoSin \o KoGo}

\* re.search(r'^[A-Za-z]+-\d+', text)
LettersHyphenDigit(text) ==
    \E i \in 2..(Len(text) - 1) :
        /\ \A j \in 1..(i - 1) : IsAlpha(Char(text, j))
        /\ Char(text, i) = "-"
        /\ IsDigit(Char(text, i + 1))

\* get_site_title: is_likely_brand (lines 98-120)
is_likely_brand(text) ==
    /\ text # ""
    /\ ~Contains(text, " ")
    /\ Len(text) >= 2 /\ Len(text) <= 10
    /\ ~(EndsWith(text, KoNeun) /\ ~EndsWith(text, KoKi))
    /\ ~LettersHyphenDigit(text)
    /\ ~IsDigit(Char(text, 1))
    /\ text \notin generic_words /\ text \notin bad_brands

separators == <<" - ", " | ", " : ", ": ", ":">>

\* Lines 69-79: the title up to " > ", cut at the first separator of the
\* list that it contains, every part stripped
TitleParts(title) ==
    LET Cut(t) ==
            LET found == {k \in 1..Len(separators) : Contains(t, separators[k])}
                parts == IF found = {} THEN <<t>> ELSE Split(t, separators[Min(found)])
            IN  IF found = {} THEN <<t>> ELSE [k \in 1..Len(parts) |-> Strip(parts[k])]
    IN  Cut(IF Contains(title, " > ") THEN Strip(Split(title, " > ")[1]) ELSE title)

\* brand_candidates.get(brand, 0)
DictGet(dict, k, default) == IF k \in Keys(dict) THEN Get(dict, k) ELSE default

\* Lines 81-84: the values of brand that pass the test of line 84, in the
\* order of the parts
RECURSIVE PartNames(_)
PartNames(parts) ==
    IF parts = <<>> THEN <<>>
    ELSE LET Pass(name) ==
                 IF name # None /\ Len(name) >= 2 /\ Len(name) <= 10
                 THEN <<name>> ELSE <<>>
         IN  Pass(_clean_brand_name(Head(parts))) \o PartNames(Tail(parts))

\* Line 87, for every name of one hit
RECURSIVE AddNames(_, _, _)
AddNames(brand_candidates, names, weight) ==
    IF names = <<>> THEN brand_candidates
    ELSE AddNames(DictSet(brand_candidates, Head(names),
                          DictGet(brand_candidates, Head(names), 0) + weight),
                  Tail(names), weight)

\* Mutant: every hit weighs 1.
HitWeightOne(item) == 1

\* weight = 3 if path in [...] else 1 (line 86)
HitWeight(item) ==
    IF RStrip(urlparse(ItemGet(item, "link")).path, "/")
          \in {"", "/", "/show", "/index.php", "/main", "/home"}
    THEN 3 ELSE 1

\* Lines 65-87: the loop over organic
RECURSIVE Candidates(_, _)
Candidates(brand_candidates, organic) ==
    IF organic = <<>> THEN brand_candidates
    ELSE Candidates(AddNames(brand_candidates,
                             PartNames(TitleParts(ItemGet(Head(organic), "title"))),
                             HitWeight(Head(organic))),
                    Tail(organic))

\* Lines 122-133: best_brand and best_score (doubled) after the loop over
\* brand_candidates
RECURSIVE Best(_, _)
Best(best, brand_candidates) ==
    IF brand_candidates = <<>> THEN best
    ELSE LET Scored2(name, doubled) ==
                 IF ~is_likely_brand(name) THEN best
                 ELSE IF doubled > best.score
                 THEN [brand |-> name, score |-> doubled]
                 ELSE best
             Entry(name, weight) ==
                 Scored2(name, IF Len(name) >= 2 /\ Len(name) <= 6
                               THEN 3 * weight ELSE 2 * weight)
         IN  Best(Entry(Head(brand_candidates)[1], Head(brand_candidates)[2]),
                  Tail(brand_candidates))

\* Lines 136-142, best_score doubled
should_fallback(best) ==
    \/ best.brand = None
    \/ best.brand \in generic_words
    \/ best.brand \in bad_brands
    \/ Contains(best.brand, " ")
    \/ best.score < 4

\* BrandSearcher.get_brand_from_domain_search: the loop over organic
RECURSIVE DomainBrand(_, _)
DomainBrand(domain_clean, organic) ==
    IF organic = <<>> THEN None
    ELSE LET Rest == DomainBrand(domain_clean, Tail(organic))
             Try(name) ==
                 IF name # None /\ Len(name) >= 2 /\ Len(name) <= 10
                 THEN name ELSE Rest
             Title(title) ==
                 IF Contains(title, " - ")
                 THEN Try(_clean_brand_name(Strip(Split(title, " - ")[1])))
                 ELSE IF Contains(title, " | ")
                 THEN Try(_clean_brand_name(Strip(Split(title, " | ")[1])))
                 ELSE Rest
         IN  IF ~Contains(ItemGet(Head(organic), "link"), domain_clean) THEN Rest
             ELSE Title(ItemGet(Head(organic), "title"))

\* What the service answers to a search: the request raises, or a status
\* and a body with the list "organic".
Answer(raises, status, organic) ==
    [raises |-> raises, status |-> status, organic |-> organic]

\* BrandSearcher.get_brand_from_domain_search, the service answering answer
get_brand_from_domain_search(domain, answer) ==
    IF answer.raises \/ answer.status # 200 THEN None
    ELSE DomainBrand(ReplaceText(domain, "www.", ""), answer.organic)

\* Lines 144-153: the value returned after the vote
BrandResult(best, domain_brand) ==
    IF should_fallback(best) /\ domain_brand # None THEN domain_brand
    ELSE IF best.brand \in generic_words THEN None
    ELSE best.brand

NoBest == [brand |-> None, score |-> 0]

\* BrandSearcher.get_site_title, the service answering first to the site:
\* search and second to the search of the fallback
get_site_title(domain, first, second) ==
    LET Voted(best) ==
            BrandResult(best, IF should_fallback(best)
                              THEN get_brand_from_domain_search(domain, second)
                              ELSE None)
    IN  IF first.raises \/ first.status # 200 \/ first.organic = <<>> THEN None
        ELSE Voted(Best(NoBest, Candidates(<<>>, first.organic)))

(***************************************************************************)
(* get_site_title, step by step: the site: search and the vote, the search *)
(* of the fallback, the return.  The service answers each search with an   *)
(* exception, a status other than 200, or up to MaxTitles hits.            *)
(***************************************************************************)
MaxTitles == 2

BrandFrame(domain) ==
    [pc |-> "search", domain |-> domain, organic |-> <<>>, names |-> <<>>,
     brand_candidates |-> <<>>, best |-> NoBest, voted |-> FALSE,
     domain_brand |-> None, ret |-> None]

\* Lines 42-142, the service answering first; names logs the values of
\* brand that each hit voted for.
BrandVote(f, first) ==
    LET Voted(best) ==
            [f EXCEPT
               !.pc = IF should_fallback(best) THEN "fallback" ELSE "return",
               !.organic = first.organic,
               !.names = [k \in 1..Len(first.organic) |->
                            PartNames(TitleParts(ItemGet(first.organic[k], "title")))],
               !.brand_candidates = Candidates(<<>>, first.organic),
               !.best = best,
               !.voted = TRUE]
    IN  IF first.raises \/ first.status # 200 \/ first.organic = <<>>
        THEN [f EXCEPT !.pc = "done", !.ret = None]
        ELSE Voted(Best(NoBest, Candidates(<<>>, first.organic)))

\* Lines 144-147, the service answering second
BrandAsk(f, second) ==
    LET Found(domain_brand) ==
            IF domain_brand # None
            THEN [f EXCEPT !.pc = "done", !.domain_brand = domain_brand,
                           !.ret = BrandResult(f.best, domain_brand)]
            ELSE [f EXCEPT !.pc = "return"]
    IN  Found(get_brand_from_domain_search(f.domain, second))

\* Lines 149-153
BrandEnd(f) ==
    [f EXCEPT !.pc = "done", !.ret = BrandResult(f.best, None)]

BrandTitles == {"Acme - Home", "Acme | About Us", "@@ - Acmecorp", "K-1: Acme!"}

HomeLinks == {"https://acme.example/"}

BrandLinks == HomeLinks \cup {"https://acme.example/about"}

BrandHit(title, link) == [title |-> title, link |-> link]

BrandAnswers ==
    {Answer(TRUE, 200, <<>>), Answer(FALSE, 500, <<>>)}
    \cup {Answer(FALSE, 200, organic) :
             organic \in SeqsUpTo({BrandHit(title, link) :
                                      title \in BrandTitles, link \in BrandLinks},
                                  MaxTitles)}

\* A title whose first part has a blank, one whose first part is a generic
\* word, one of another site, and one with a brand.
FallbackHits ==
    {BrandHit("About Us - Acme", "https://acme.example/about"),
     BrandHit("@@ | Acme", "https://acme.example/"),
     BrandHit("Other - Acme", "https://other.example/"),
     BrandHit("Beta - Acme", "https://www.acme.example/")}

FallbackAnswers ==
    {Answer(TRUE, 200, <<>>), Answer(FALSE, 500, <<>>)}
    \cup {Answer(FALSE, 200, organic) : organic \in SeqsUpTo(FallbackHits, 2)}

BrandInit ==
    /\ brand \in {BrandFrame(domain) : domain \in {"acme.example", "www.acme.example"}}
    /\ classify = Idle /\ parse = Idle /\ filter = Idle /\ cli = Idle
    /\ shape = Idle /\ score = Idle /\ rank = Idle /\ search = Idle

BrandSearch ==
    /\ brand.pc = "search"
    /\ \E first \in BrandAnswers : brand' = BrandVote(brand, first)
    /\ UNCHANGED <<classify, parse, filter, cli, shape, score, rank, search>>

BrandFallback ==
    /\ brand.pc = "fallback"
    /\ \E second \in FallbackAnswers : brand' = BrandAsk(brand, second)
    /\ UNCHANGED <<classify, parse, filter, cli, shape, score, rank, search>>

BrandReturn ==
    /\ brand.pc = "return"
    /\ brand' = BrandEnd(brand)
    /\ UNCHANGED <<classify, parse, filter, cli, shape, score, rank, search>>

BrandNext == BrandSearch \/ BrandFallback \/ BrandReturn

SpecBrand == BrandInit /\ [][BrandNext]_vars

\* How often name is in the sequence names
RECURSIVE Times(_, _)
Times(names, name) ==
    IF names = <<>> THEN 0
    ELSE (IF Head(names) = name THEN 1 ELSE 0) + Times(Tail(names), name)

\* The weight of name after the first k hits: 3 for every vote of a hit on
\* the home page, 1 for every other vote.
RECURSIVE VoteWeight(_, _, _)
VoteWeight(f, name, k) ==
    IF k = 0 THEN 0
    ELSE VoteWeight(f, name, k - 1)
         + Times(f.names[k], name)
              * (IF ItemGet(f.organic[k], "link") \in HomeLinks THEN 3 ELSE 1)

\* Twice the adjusted weight: weight x 1.5 for a name of at most 6
\* characters.
Adjusted(f, name) ==
    (IF Len(name) <= 6 THEN 3 ELSE 2) * VoteWeight(f, name, Len(f.organic))

Accepted(f) ==
    {name \in UNION {Range(f.names[k]) : k \in 1..Len(f.names)} : is_likely_brand(name)}

Top(f) ==
    {name \in Accepted(f) : \A other \in Accepted(f) : Adjusted(f, other) <= Adjusted(f, name)}

(***************************************************************************)
(* C19: after the vote of get_site_title, with every name weighing 3 per   *)
(* vote of a hit on the home page and 1 per other vote, x 1.5 for a name   *)
(* of at most 6 characters: if names pass the acceptance filter, a name of *)
(* maximal adjusted weight among them is returned when that weight is at   *)
(* least 2; when it is below 2 the brand of the fallback search is         *)
(* returned if it finds one, else that name.  The titles "Acme - Home",    *)
(* "Acme | About Us" give "Acme".                                          *)
(***************************************************************************)
BrandSelected ==
    brand.pc = "done" /\ brand.voted /\ Accepted(brand) # {} =>
        /\ \/ brand.ret \in Top(brand)
           \/ /\ \A name \in Top(brand) : Adjusted(brand, name) < 4
              /\ brand.domain_brand # None
              /\ brand.ret = brand.domain_brand
        /\ brand.domain_brand # None => \A name \in Top(brand) : Adjusted(brand, name) < 4
        /\ /\ Len(brand.organic) = 2
           /\ brand.organic[1].title = "Acme - Home"
           /\ brand.organic[2].title = "Acme | About Us"
           => brand.ret = "Acme"

\* The statement without the fallback.
BrandSelectedAlways ==
    brand.pc = "done" /\ brand.voted /\ Accepted(brand) # {} =>
        brand.ret \in Top(brand)

\* The scenario, none of the two hits on the home page: Acme has the
\* weight 2 x 1.5, Home 1 x 1.5, and "About Us" is not accepted.
BrandSelectedWitness ==
    /\ brand.pc = "done"
    /\ brand.domain = "acme.example"
    /\ brand.organic = <<BrandHit("Acme - Home", "https://acme.example/about"),
                         BrandHit("Acme | About Us", "https://acme.example/about")>>
    /\ brand.brand_candidates = << <<"Acme", 2>>, <<"Home", 1>>, <<"About Us", 1>> >>
    /\ brand.best = [brand |-> "Acme", score |-> 6]
    /\ brand.ret = "Acme"

(***************************************************************************)
(* C20: a brand returned by get_site_title, from the vote or from the      *)
(* fallback search, has 2 to 10 characters, no whitespace in it, and is    *)
(* not in generic_words or bad_brands.                                     *)
(***************************************************************************)
BrandAcceptable ==
    brand.pc = "done" /\ brand.ret # None =>
        /\ Len(brand.ret) >= 2 /\ Len(brand.ret) <= 10
        /\ \A i \in 1..Len(brand.ret) : Char(brand.ret, i) \notin Whitespace
        /\ brand.ret \notin generic_words \cup bad_brands

\* The fallback search returns the first part of "About Us - Acme".
BrandAcceptableWitness ==
    /\ brand.pc = "done"
    /\ brand.voted
    /\ brand.domain_brand = "About Us"
    /\ brand.ret = "About Us"

(***************************************************************************)
(* classify_urls on URLs that carry an item-id query key                   *)
(***************************************************************************)
MaxIdUrls == 2

\* The item-id keys of the recognized family.
ItemIdKeys == {"wr_id", "id", "no", "idx", "seq", "document_srl"}

\* A page URL with the item-id key alone, and a board URL with the key
\* behind bo_table.
ItemIdUrl(key) == "https://d.example/view.php?" \o key \o "=5"

ItemIdPool ==
    {ItemIdUrl(key) : key \in ItemIdKeys}
    \cup {"https://d.example/bbs/board.php?bo_table=free&no=12"}

ItemIdInit ==
    /\ classify \in {ClassifyFrame(us, b) : us \in SeqsUpTo(ItemIdPool, MaxIdUrls),
                                           b \in BatchSizes}
    /\ parse = Idle /\ filter = Idle /\ cli = Idle
    /\ shape = Idle /\ score = Idle /\ rank = Idle /\ search = Idle /\ brand = Idle

SpecItemId == ItemIdInit /\ [][ClassifyNext]_vars

\* C21: every URL whose query holds an item-id key (wr_id, id, no, idx,
\* seq, document_srl) is matched by is_obvious_post: once the rule loop has
\* passed it, it is labeled POST and it is not among the URLs kept for
\* Stage 3, so no call carries it.
ItemIdIsPost ==
    \A i \in 1..Len(classify.urls) :
        (i < classify.i /\ classify.urls[i] \in ItemIdPool) =>
            /\ classify.urls[i] \notin Range(classify.need_ai)
            /\ classify.urls[i] \in DOMAIN classify.results
            /\ classify.results[classify.urls[i]] = "POST"

\* classify_urls has returned; a URL with the key wr_id was labeled by
\* Stage 1, and a URL with the key id went to the external service, whose
\* reply made it SEO.
ItemIdIsPostWitness ==
    /\ classify.pc = "done"
    /\ ItemIdUrl("wr_id") \in Range(classify.urls)
    /\ ItemIdUrl("wr_id") \notin Range(classify.need_ai)
    /\ classify.results[ItemIdUrl("wr_id")] = "POST"
    /\ ItemIdUrl("id") \in Range(classify.need_ai)
    /\ \E k \in 1..Len(classify.calls) :
          ItemIdUrl("id") \in Range(classify.calls[k].batch)
    /\ classify.results[ItemIdUrl("id")] = "SEO"

(***************************************************************************)
(* Properties of filter_urls: strict mode, the structure count, two calls  *)
(***************************************************************************)
\* C22: in strict mode every URL of the output of filter_urls has a
\* content identifier: _has_content_identifier is true of it.
StrictHasIdentifier ==
    \A c \in Running :
       filter[c].strict =>
          \A k \in 1..Len(filter[c].filtered) :
             _has_content_identifier(filter[c].filtered[k].url)

\* A call in strict mode has returned: it dropped a list page, and what it
\* kept has a content identifier.
StrictHasIdentifierWitness ==
    /\ filter[1].pc = "done"
    /\ filter[1].strict
    /\ Len(filter[1].filtered) >= 1
    /\ \E i \in 1..Len(filter[1].log) : filter[1].log[i].verdict = "list"
    /\ \A k \in 1..Len(filter[1].filtered) :
          _has_content_identifier(filter[1].filtered[k].url)

(***************************************************************************)
(* brand_search.py: calculate_seo_score.  Steps 4 and 5 search the path    *)
(* for Hangul words (an amount in U+B9CC U+C6D0 or U+CC9C U+C6D0, and      *)
(* U+BA39 U+D280 between hyphens); the Hangul of the model's texts is the  *)
(* one stand-in, which is none of these words, so the two steps add 0.     *)
(***************************************************************************)
\* important_keywords, without the four Hangul entries
important_keywords == <<"login", "main", "show", "link">>

system_keywords == <<"register", "password", "logout", "captcha", "qalist">>

\* re.search(r'page=\d+', query)
PageNumber(query) ==
    \E i \in 1..(Len(query) - 5) :
        SubSeq(query, i, i + 4) = "page=" /\ IsDigit(Char(query, i + 5))

\* step 3, for one segment
SlugPenalty(seg) ==
      (IF Count(seg, "-") >= 2 /\ HasHangul(seg) THEN -80
       ELSE IF Count(seg, "-") >= 3 THEN -80 ELSE 0)
    + (IF Len(seg) > 20 THEN -70 ELSE 0)

RECURSIVE SlugPenalties(_)
SlugPenalties(segments) ==
    IF segments = <<>> THEN 0
    ELSE SlugPenalty(Head(segments)) + SlugPenalties(Tail(segments))

\* for kw in table: if kw in text: score += points
RECURSIVE EachKeyword(_, _, _)
EachKeyword(table, text, points) ==
    IF table = <<>> THEN 0
    ELSE (IF Contains(text, Head(table)) THEN points ELSE 0)
         + EachKeyword(Tail(table), text, points)

\* step 8: for kw in system_keywords: if kw in path.lower(): score -= 100
SeoSystemPenalty(path) == EachKeyword(system_keywords, Lower(path), -100)

calculate_seo_score(url, title, snippet) ==
    LET Score(path, query, segments) ==
              (IF Len(segments) = 0 THEN 100
               ELSE IF Len(segments) = 1 THEN 80
               ELSE IF Len(segments) = 2 /\ ~EndsWithNumber(path) THEN 60
               ELSE 10)
            + (IF EndsWithNumber(path) THEN -50 ELSE 0)
            + SlugPenalties(segments)
            + (IF query # ""
               THEN   (IF PageNumber(query) THEN -50 ELSE 0)
                    + (IF \E p \in {"sfl=", "sst=", "sod=", "sca="} : Contains(query, p)
                       THEN -60 ELSE 0)
                    + (IF Contains(query, "wr_id=") THEN -80 ELSE 0)
               ELSE 0)
            + EachKeyword(important_keywords, Lower(path \o " " \o title), 15)
            + SeoSystemPenalty(path)
        Path(path, query) == Score(path, query, NonPhpSegments(Split(path, "/")))
        Parsed(parsed) == Path(RStrip(unquote(parsed.path), "/"), parsed.query)
    IN  Parsed(urlparse(url))

(***************************************************************************)
(* The two scorers called on a pair of URLs: a path that holds one system  *)
(* word, and a path that holds up to MaxWords of them, run together or     *)
(* joined by "/" or "-".  Each call logs the score it returns and what     *)
(* its system-page step added to the score.                                *)
(***************************************************************************)
MaxWords == 2

\* The words of system_keywords; each is in system_pages too.
SystemWords == Range(system_keywords)

SystemTitles == {"t", "Main login"}

SystemFrame(words, sep, title) ==
    [pc |-> "calls", words |-> words, title |-> title,
     urls |-> <<"https://d.example/" \o words[1],
                "https://d.example/" \o Join(words, sep)>>,
     general |-> <<>>, seo |-> <<>>]

SystemInit ==
    /\ score \in {SystemFrame(words, sep, title) :
                     words \in SeqsUpTo(SystemWords, MaxWords) \ {<<>>},
                     sep \in {"", "/", "-"}, title \in SystemTitles}
    /\ classify = Idle /\ parse = Idle /\ filter = Idle /\ cli = Idle
    /\ shape = Idle /\ rank = Idle /\ search = Idle /\ brand = Idle

\* The path as calculate_score and as calculate_seo_score read it.
GeneralPath(url) == RStrip(Lower(unquote(urlparse(url).path)), "/")

SeoPath(url) == RStrip(unquote(urlparse(url).path), "/")

SystemPc(general, seo) == IF Len(general) = 2 /\ Len(seo) = 2 THEN "done" ELSE "calls"

\* calculate_score is called on the next URL of the pair.
SystemGeneral ==
    /\ score.pc = "calls"
    /\ Len(score.general) < 2
    /\ LET Called(url) ==
               Append(score.general,
                      [total |-> calculate_score(url, score.title, "s"),
                       penalty |-> SystemPagePenalty(GeneralPath(url))])
       IN  score' = [score EXCEPT
                        !.general = Called(score.urls[Len(score.general) + 1]),
                        !.pc = SystemPc(Called(score.urls[Len(score.general) + 1]),
                                        score.seo)]
    /\ UNCHANGED <<classify, parse, filter, cli, shape, rank, search, brand>>

\* calculate_seo_score is called on the next URL of the pair.
SystemSeo ==
    /\ score.pc = "calls"
    /\ Len(score.seo) < 2
    /\ LET Called(url) ==
               Append(score.seo,
                      [total |-> calculate_seo_score(url, score.title, "s"),
                       penalty |-> SeoSystemPenalty(SeoPath(url))])
       IN  score' = [score EXCEPT
                        !.seo = Called(score.urls[Len(score.seo) + 1]),
                        !.pc = SystemPc(score.general,
                                        Called(score.urls[Len(score.seo) + 1]))]
    /\ UNCHANGED <<classify, parse, filter, cli, shape, rank, search, brand>>

SystemNext == SystemGeneral \/ SystemSeo

SpecSystem == SystemInit /\ [][SystemNext]_vars

\* C23: in both scorers the system-page penalty is applied once per URL: a
\* path that holds several system-page substrings gets the penalty of the
\* path that holds exactly one of them.
SystemPenaltyOnce ==
    score.pc = "done" =>
        /\ score.general[2].penalty = score.general[1].penalty
        /\ score.seo[2].penalty = score.seo[1].penalty

\* Both scorers were called on /register and on /registerpassword, paths
\* of one segment that differ in nothing but the second system word:
\* calculate_score gives both the penalty of 50 and the same score.
SystemPenaltyOnceWitness ==
    /\ score.pc = "done"
    /\ score.words = <<"register", "password">>
    /\ score.urls[2] = "https://d.example/registerpassword"
    /\ score.general[1].penalty = -50
    /\ score.general[2].penalty = -50
    /\ score.general[2].total = score.general[1].total
    /\ score.seo[1].penalty = -100
    /\ score.seo[2].total < score.seo[1].total

(***************************************************************************)
(* brand_search.py: filter_brand_results                                   *)
(***************************************************************************)
\* re.sub(r'/\d+', '/{id}', path): every "/" that a digit follows is
\* replaced, with the digits that follow it, by "/{id}".
RECURSIVE SubDigits(_)
SubDigits(path) ==
    IF path = "" THEN ""
    ELSE IF Char(path, 1) = "/" /\ Len(path) >= 2 /\ IsDigit(Char(path, 2))
    THEN LET Run(n) == "/{id}" \o SubDigits(From(path, n + 1))
         IN  Run(Max({n \in 2..Len(path) : AllDigits(SubSeq(path, 2, n))}))
    ELSE Char(path, 1) \o SubDigits(From(path, 2))

\* score, with the bonus of the target domain (lines 509-513)
ResultScore(item, target_domain) ==
    calculate_seo_score(ItemGet(item, "url"), ItemGet(item, "title"),
                        ItemGet(item, "snippet"))
    + (IF target_domain # None /\ Contains(ItemGet(item, "domain"), target_domain)
       THEN 50 ELSE 0)

\* The locals of filter_brand_results at entry; scores logs the score of
\* each item of results.
ResultsFrame(results, target_domain, min_score, max_results) ==
    [pc |-> "score", results |-> results, target_domain |-> target_domain,
     min_score |-> min_score, max_results |-> max_results,
     scores |-> <<>>, scored |-> <<>>, i |-> 1, seen_patterns |-> {},
     unique |-> <<>>, out |-> <<>>]

\* The first loop (lines 503-516) and the sort (line 519).
ResultsScored(f) ==
    LET Retain(scores) ==
            SelectSeq([k \in 1..Len(f.results) |-> WithScore(f.results[k], scores[k])],
                      LAMBDA item : item["_score"] >= f.min_score)
        Sort(scores, scored) ==
            [f EXCEPT !.scores = scores, !.scored = scored,
                      !.pc = IF scored = <<>> THEN "return" ELSE "unique"]
        Scores(scores) == Sort(scores, SortByScore(Retain(scores)))
    IN  Scores([k \in 1..Len(f.results) |-> ResultScore(f.results[k], f.target_domain)])

\* Mutant: every item is appended, whatever its pattern.
ResultsUniqueIterationKeepAll(f) ==
    [f EXCEPT !.i = @ + 1,
              !.pc = IF f.i = Len(f.scored) THEN "return" ELSE "unique",
              !.unique = Append(@, f.scored[f.i])]

\* One iteration of the second loop (lines 524-530).
ResultsUniqueIteration(f) ==
    LET Pattern(item, pattern) ==
            [f EXCEPT !.i = @ + 1,
                      !.pc = IF f.i = Len(f.scored) THEN "return" ELSE "unique",
                      !.seen_patterns = @ \cup {pattern},
                      !.unique = IF pattern \in f.seen_patterns THEN @
                                 ELSE Append(@, item)]
        Entry(item) ==
            Pattern(item, SubDigits(RStrip(urlparse(item["url"]).path, "/")))
    IN  Entry(f.scored[f.i])

\* Line 533.
ResultsReturned(f) ==
    LET Cut(unique) == [k \in 1..Len(unique) |-> WithoutScore(unique[k])]
    IN  [f EXCEPT !.pc = "done", !.out = Cut(Slice(f.unique, f.max_results))]

RECURSIVE ResultsRun(_)
ResultsRun(f) ==
    IF f.pc = "done" THEN f
    ELSE IF f.pc = "score" THEN ResultsRun(ResultsScored(f))
    ELSE IF f.pc = "unique" THEN ResultsRun(ResultsUniqueIteration(f))
    ELSE ResultsRun(ResultsReturned(f))

filter_brand_results(results, target_domain, min_score, max_results) ==
    ResultsRun(ResultsFrame(results, target_domain, min_score, max_results)).out

(***************************************************************************)
(* filter_brand_results as a state machine, on up to MaxResults results    *)
(***************************************************************************)
MaxResults == 2

Result(url, title, domain) ==
    [url |-> url, title |-> title, snippet |-> "s", domain |-> domain]

\* Two articles of one board on two hosts, the second with a trailing
\* slash; two pages whose last segment begins with digits, the second with
\* the better title; a category page.
ResultsPool ==
    {Result("https://d.example/mt/12", "t", "d.example"),
     Result("https://e.example/mt/34/", "t", "e.example"),
     Result("https://d.example/post/12abc", "t", "d.example"),
     Result("https://d.example/post/34abc", "Main", "d.example"),
     Result("https://d.example/about", "t", "d.example")}

ResultsInit ==
    /\ rank \in {ResultsFrame(results, target_domain, min_score, max_results) :
                    results \in SeqsUpTo(ResultsPool, MaxResults),
                    target_domain \in {None, "e.example"},
                    min_score \in {0, -100}, max_results \in {0, 1, 100, -1}}
    /\ classify = Idle /\ parse = Idle /\ filter = Idle /\ cli = Idle
    /\ shape = Idle /\ score = Idle /\ search = Idle /\ brand = Idle

ResultsScore ==
    /\ rank.pc = "score"
    /\ rank' = ResultsScored(rank)
    /\ UNCHANGED <<classify, parse, filter, cli, shape, score, search, brand>>

ResultsUnique ==
    /\ rank.pc = "unique"
    /\ rank' = ResultsUniqueIteration(rank)
    /\ UNCHANGED <<classify, parse, filter, cli, shape, score, search, brand>>

ResultsReturn ==
    /\ rank.pc = "return"
    /\ rank' = ResultsReturned(rank)
    /\ UNCHANGED <<classify, parse, filter, cli, shape, score, search, brand>>

ResultsNext == ResultsScore \/ ResultsUnique \/ ResultsReturn

SpecResults == ResultsInit /\ [][ResultsNext]_vars

\* The path pattern of a URL: its path, without trailing slashes, with
\* every segment that is all digits replaced by {id}.
PathPattern(url) ==
    LET Segments(parts) ==
            Join([k \in 1..Len(parts) |->
                     IF AllDigits(parts[k]) THEN "{id}" ELSE parts[k]], "/")
    IN  Segments(Split(RStrip(urlparse(url).path, "/"), "/"))

\* Of the results with its pattern, result i has the highest score and is
\* the first of those with that score.
BestOfPattern(f, patterns, i) ==
    \A j \in 1..Len(patterns) :
        patterns[j] = patterns[i] =>
            \/ f.scores[j] < f.scores[i]
            \/ f.scores[j] = f.scores[i] /\ j >= i

\* The output as the claim describes it; pos[k] is the place in the input
\* of the k-th entry of the output.
OnePerPatternOf(f, patterns) ==
    /\ Len(f.out) <= f.max_results
    /\ Len(f.out) <= Len(f.unique)
    /\ \A k \in 1..(Len(f.out) - 1) : f.unique[k]["_score"] >= f.unique[k + 1]["_score"]
    /\ \E pos \in [1..Len(f.out) -> 1..Len(patterns)] :
          /\ \A k \in 1..Len(f.out) :
                /\ f.out[k] = f.results[pos[k]]
                /\ f.unique[k]["_score"] = f.scores[pos[k]]
                /\ f.scores[pos[k]] >= f.min_score
                /\ BestOfPattern(f, patterns, pos[k])
          /\ \A j, k \in 1..Len(f.out) : patterns[pos[j]] = patterns[pos[k]] => j = k
          /\ Len(f.out) < f.max_results =>
                \A i \in 1..Len(patterns) :
                    f.scores[i] >= f.min_score =>
                        \E k \in 1..Len(f.out) : patterns[pos[k]] = patterns[i]

\* The pattern filter_brand_results computes (lines 525-527).
CodePattern(url) == SubDigits(RStrip(urlparse(url).path, "/"))

\* C24: for max_results >= 0, the output of filter_brand_results has one
\* entry for each path pattern of the results of score >= min_score, the
\* pattern being the path with every "/" and the digits that follow it
\* replaced by /{id}; the entry is the best-scoring result of the pattern
\* (the first in the input among equal scores); the output is in order of
\* non-increasing score and has at most max_results entries, the patterns
\* without an entry being those the cut removed.
OnePerPattern ==
    rank.pc = "done" /\ rank.max_results >= 0 =>
        OnePerPatternOf(rank, [i \in 1..Len(rank.results) |->
                                   CodePattern(rank.results[i].url)])

\* The statement for every max_results, the pattern being the path with
\* every all-digit segment replaced by {id}.
OnePerPatternOfSegments ==
    rank.pc = "done" =>
        OnePerPatternOf(rank, [i \in 1..Len(rank.results) |->
                                   PathPattern(rank.results[i].url)])

\* The call has returned one entry for /mt/12 and /mt/34/ of equal score:
\* the first of the input.
OnePerPatternWitness ==
    /\ rank.pc = "done"
    /\ Len(rank.results) = 2
    /\ rank.target_domain = None
    /\ rank.min_score = -100
    /\ rank.max_results = 100
    /\ rank.results[1].url = "https://e.example/mt/34/"
    /\ rank.results[2].url = "https://d.example/mt/12"
    /\ rank.scores = <<-40, -40>>
    /\ rank.seen_patterns = {"/mt/{id}"}
    /\ rank.out = <<rank.results[1]>>

(***************************************************************************)
(* C25: Stage 3 cuts need_ai, in its order, into consecutive batches of    *)
(* batch_size URLs, the last one possibly shorter, and issues one call per *)
(* batch, after the rule loop: the k-th call carries the k-th piece, at    *)
(* return there were ceil(Len(need_ai) / batch_size) calls (none for an    *)
(* empty need_ai), and the batches put end to end are need_ai, so each     *)
(* unresolved URL was sent in one batch.                                   *)
(***************************************************************************)
BatchPartition ==
    /\ classify.pc = "rules" => classify.calls = <<>>
    /\ \A k \in 1..Len(classify.calls) :
          /\ classify.calls[k].batch =
                SubSeq(classify.need_ai, (k - 1) * classify.batch_size + 1,
                       Min({k * classify.batch_size, Len(classify.need_ai)}))
          /\ Len(classify.calls[k].batch) \in 1..classify.batch_size
          /\ k < Len(classify.calls) =>
                Len(classify.calls[k].batch) = classify.batch_size
    /\ classify.pc = "done" =>
          /\ Len(classify.calls) = CeilDiv(Len(classify.need_ai), classify.batch_size)
          /\ Len(Flatten(SentBatches)) = Len(classify.need_ai)
          /\ \A i \in 1..Len(classify.need_ai) :
                Flatten(SentBatches)[i] = classify.need_ai[i]

\* classify_urls has returned with batch_size 2 and three unresolved URLs:
\* there were two calls, for a batch of 2 and a batch of 1.
BatchPartitionWitness ==
    /\ classify.pc = "done"
    /\ classify.batch_size = 2
    /\ Len(classify.need_ai) = 3
    /\ Len(classify.calls) = 2
    /\ Len(classify.calls[1].batch) = 2
    /\ Len(classify.calls[2].batch) = 1

(***************************************************************************)
(* Two calls of filter_urls, for the hits of two domains, run step by step *)
(* in any order.  Each list holds up to MaxEach hits; a hit of a third     *)
(* host is among the hits of both domains.                                 *)
(***************************************************************************)
MaxEach == 2

SharedHit == Item("https://c.example/post/7")

TwoPools ==
    <<{Item("https://a.example/list?page=1"), SharedHit},
      {Item("https://b.example/view?id=1"), SharedHit}>>

\* The first call in either mode, the second with a cap of one per host.
TwoInit ==
    /\ \E first \in {FilterEntry(urls, strict, 50) :
                        urls \in SeqsUpTo(TwoPools[1], MaxEach), strict \in BOOLEAN},
          second \in {FilterEntry(urls, FALSE, 1) :
                        urls \in SeqsUpTo(TwoPools[2], MaxEach)} :
          filter = [c \in Calls |-> IF c = 1 THEN first ELSE second]
    /\ classify = Idle /\ parse = Idle /\ cli = Idle
    /\ shape = Idle /\ score = Idle /\ rank = Idle /\ search = Idle /\ brand = Idle

SpecTwoDomains == TwoInit /\ [][FilterNext]_vars

\* C26: two calls of filter_urls share no state.  Whatever the order in
\* which their steps were taken, when both have returned each has returned
\* the list it returns when it runs alone on its input.
CallsIndependent ==
    (\A c \in Calls : filter[c].pc = "done") =>
        \A c \in Calls :
           filter[c].filtered =
              filter_urls(filter[c].urls, filter[c].strict, filter[c].max_per_domain)

\* Both calls have returned the hit that is in both inputs, the second
\* call having seen it while the first call was still in its first loop.
CallsIndependentWitness ==
    /\ filter[1].pc = "done"
    /\ filter[2].pc = "done"
    /\ \E j \in 1..Len(filter[1].filtered), k \in 1..Len(filter[2].filtered) :
          /\ filter[1].filtered[j] = SharedHit
          /\ filter[2].filtered[k] = SharedHit
    /\ Len(filter[1].urls) = 2
    /\ Len(filter[2].urls) = 2

(***************************************************************************)
(* filter_urls called on its own output: the second call, with the mode    *)
(* and the cap of the first, is entered when the first has returned.       *)
(***************************************************************************)
FilterAgain ==
    /\ filter[1].pc = "done"
    /\ filter[2].pc = "idle"
    /\ filter' = [filter EXCEPT ![2] = FilterEntry(filter[1].filtered, filter[1].strict,
                                                   filter[1].max_per_domain)]
    /\ UNCHANGED <<classify, parse, cli, shape, score, rank, search, brand>>

AgainNext == FilterCountStep \/ FilterStep \/ FilterAgain

SpecAgain == FilterInit /\ [][AgainNext]_vars

\* No structure is that of 3 or more items of the input of call c.
NoFrequentStructure(c) ==
    \A i \in 1..Len(filter[c].structures) : StructureCount(filter[c], i) < 3

\* C27: for an input list in which no structural signature occurs 3 times
\* or more, filter_urls applied to its own output, with the same strict
\* and the same max_per_domain, returns that output.
FilterIdempotent ==
    (filter[1].pc = "done" /\ filter[2].pc = "done" /\ NoFrequentStructure(1)) =>
        filter[2].filtered = filter[1].filtered

\* The statement for every input list.
FilterIdempotentAnyInput ==
    (filter[1].pc = "done" /\ filter[2].pc = "done") =>
        filter[2].filtered = filter[1].filtered

\* The second call has returned the two entries of the first, which had
\* dropped a duplicate of one of them before: an article with its tracking
\* parameter and a fragment, and a page of another host.
FilterIdempotentWitness ==
    /\ filter[1].pc = "done"
    /\ filter[2].pc = "done"
    /\ NoFrequentStructure(1)
    /\ Len(filter[1].urls) = 3
    /\ Len(filter[1].filtered) = 2
    /\ \E i \in 1..3 : filter[1].log[i].verdict = "duplicate"
    /\ filter[2].filtered = filter[1].filtered

\* The number of items of the input, with a URL, whose structure is s.
InputCount(f, s) ==
    Cardinality({j \in 1..Len(f.structures) : f.structures[j] = s})

\* C29: filter_urls counts the structural signatures once, over every item
\* of the input that has a URL, before the loop that filters: no item is
\* judged while the count runs, and from then on the count of a signature
\* is the number of input items that have it, those dropped as duplicates,
\* as system URLs or over the cap included.  That count decides the >= 3
\* rule: an item whose signature the second loop looks up is an article
\* when 3 or more input items have it.
CountedOverInput ==
    \A c \in Running :
       /\ filter[c].pc = "count" => filter[c].log = <<>> /\ filter[c].filtered = <<>>
       /\ filter[c].pc \in {"filter", "done"} =>
             /\ Len(filter[c].structures) = Len(filter[c].urls)
             /\ \A i \in 1..Len(filter[c].urls) :
                   filter[c].structures[i] # "" =>
                      /\ filter[c].structures[i] \in DOMAIN filter[c].structure_counts
                      /\ filter[c].structure_counts[filter[c].structures[i]]
                            = InputCount(filter[c], filter[c].structures[i])
             /\ \A i \in 1..Len(filter[c].log) :
                   (/\ filter[c].log[i].structure # ""
                    /\ InputCount(filter[c], filter[c].log[i].structure) >= 3)
                   => filter[c].log[i].is_article

\* A call has returned one entry for an input of three items with one URL,
\* a list page without a content identifier: the first item was kept as an
\* article, on a count of 3 to which the two duplicates contributed.
CountedOverInputWitness ==
    /\ filter[1].pc = "done"
    /\ Len(filter[1].urls) = 3
    /\ Len(filter[1].filtered) = 1
    /\ filter[1].log[1].verdict = "kept"
    /\ filter[1].log[1].is_article
    /\ filter[1].log[2].verdict = "duplicate"
    /\ filter[1].log[3].verdict = "duplicate"
    /\ filter[1].structure_counts[filter[1].log[1].structure] = 3
    /\ _is_list_page(filter[1].filtered[1].url)
    /\ ~_has_content_identifier(filter[1].filtered[1].url)

(***************************************************************************)
(* SerperClient.site_search with the responses kept: the frame has a       *)
(* field links, the links of the items of every page answered, in the      *)
(* order of the responses.                                                 *)
(***************************************************************************)
\* Three links and an empty link; a page may repeat a link, one of its own
\* or one of an earlier page.
PagePool ==
    {Hit("https://a.example/1"), Hit("https://a.example/2"),
     Hit("https://a.example/3"), Hit("")}

PageAnswers ==
    {Page(TRUE, <<>>)} \cup {Page(FALSE, organic) : organic \in SeqsUpTo(PagePool, MaxOrganic)}

PagesInit ==
    /\ search \in {[links |-> <<>>] @@ SearchFrame(num_results) :
                      num_results \in {-5, 0, 1, 2, 11, 25}}
    /\ classify = Idle /\ parse = Idle /\ filter = Idle /\ cli = Idle
    /\ shape = Idle /\ score = Idle /\ rank = Idle /\ brand = Idle

PagesRequest ==
    /\ search.pc = "loop"
    /\ SearchMore(search)
    /\ \E answer \in PageAnswers :
          search' = [SearchIteration(search, answer) EXCEPT
                       !.links = @ \o [k \in 1..Len(answer.organic) |->
                                          ItemGet(answer.organic[k], "link")]]
    /\ UNCHANGED <<classify, parse, filter, cli, shape, score, rank, brand>>

PagesNext == PagesRequest \/ SearchReturn

SpecPages == PagesInit /\ [][PagesNext]_vars

\* The position at which url is first in links
FirstOccurrence(links, url) ==
    CHOOSE k \in 1..Len(links) :
       links[k] = url /\ \A j \in 1..(k - 1) : links[j] # url

\* C30: whatever pages the service answers, pages that repeat URLs of
\* earlier pages included, the list site_search returns has no URL twice,
\* has at most num_results entries (none for num_results < 0), and its URLs
\* are URLs of the responses, in the order in which they first occur there.
PagesDeduplicated ==
    search.pc = "done" =>
       /\ \A i, j \in 1..Len(search.ret) :
             search.ret[i].url = search.ret[j].url => i = j
       /\ Len(search.ret) <= Max({search.num_results, 0})
       /\ \A i \in 1..Len(search.ret) :
             /\ search.ret[i].url # ""
             /\ \E k \in 1..Len(search.links) : search.links[k] = search.ret[i].url
       /\ \A i, j \in 1..Len(search.ret) :
             i < j => FirstOccurrence(search.links, search.ret[i].url)
                         < FirstOccurrence(search.links, search.ret[j].url)

\* Two pages were answered for 11 results, the second repeating the first
\* URL of the first before a new one: the list returned has each URL once,
\* in the order of first occurrence.
PagesDeduplicatedWitness ==
    /\ search.pc = "done"
    /\ search.num_results = 11
    /\ search.links = <<"https://a.example/2", "https://a.example/1",
                        "https://a.example/2", "https://a.example/3">>
    /\ Len(search.ret) = 3
    /\ search.ret[1].url = "https://a.example/2"
    /\ search.ret[2].url = "https://a.example/1"
    /\ search.ret[3].url = "https://a.example/3"

(***************************************************************************)
(* groq_filter.py: remove_page_param, extract_category_urls and            *)
(* filter_urls_with_ai                                                     *)
(***************************************************************************)
\* "&".join(f"{k}={v[0]}" for k, v in params.items() if v), page popped
NewQuery(params) ==
    LET Joined(rest) ==
            Join([k \in 1..Len(rest) |-> rest[k][1] \o "=" \o rest[k][2][1]], "&")
    IN  Joined(SelectSeq(params, LAMBDA kv : kv[1] # "page" /\ kv[2] # <<>>))

remove_page_param(url) ==
    LET Rebuilt(parsed, new_query) ==
            IF new_query # ""
            THEN parsed.scheme \o "://" \o parsed.netloc \o parsed.path \o "?" \o new_query
            ELSE parsed.scheme \o "://" \o parsed.netloc \o parsed.path
        Parsed(parsed) ==
            IF parsed.query = "" THEN url
            ELSE Rebuilt(parsed, NewQuery(QsDict(parse_qsl(parsed.query, TRUE), <<>>)))
    IN  Parsed(urlparse(url))

\* The set categories of extract_category_urls (lines 252-267)
Categories(urls) ==
    {Get(parse_qs(urlparse(urls[k].url).query), "bo_table")[1] :
        k \in {j \in 1..Len(urls) :
                  "bo_table" \in Keys(parse_qs(urlparse(urls[j].url).query))}}

\* extract_category_urls: one entry per bo_table value, sorted, on the
\* scheme and host of the first item.  The title is the value, a blank and
\* a word of three Hangul syllables.
extract_category_urls(urls) ==
    LET Entries(domain, cats) ==
            [k \in 1..Len(cats) |->
                [url |-> domain \o "/bbs/board.php?bo_table=" \o cats[k],
                 title |-> cats[k] \o " " \o Hangul \o Hangul \o Hangul,
                 snippet |-> "",
                 domain |-> urlparse(domain).netloc]]
        First(parsed) == Entries(parsed.scheme \o "://" \o parsed.netloc, Sorted(Categories(urls)))
    IN  IF urls = <<>> THEN <<>> ELSE First(urlparse(urls[1].url))

\* A call of filter_urls_with_ai that has got the classifications
\* (lines 288-313).
AiFrame(urls, classifications) ==
    [pc |-> "dedupe", urls |-> urls, classifications |-> classifications,
     all_seo |-> SelectSeq(urls, LAMBDA item : classifications[item.url] = "SEO")
                    \o extract_category_urls(urls),
     i |-> 1, seen_urls |-> {}, result |-> <<>>]

\* The label of the rule stages, "AI" when neither matches
RuleLabel(url) ==
    IF is_obvious_post(url) THEN "POST"
    ELSE IF is_obvious_seo(url) THEN "SEO" ELSE "AI"

\* One iteration of the loop of lines 318-323.
AiDedupeIteration(f) ==
    LET Cleaned(item, clean_url) ==
            [f EXCEPT !.i = @ + 1,
                      !.seen_urls = @ \cup {clean_url},
                      !.result = IF clean_url \notin f.seen_urls
                                 THEN Append(@, [item EXCEPT !.url = clean_url])
                                 ELSE @]
    IN  Cleaned(f.all_seo[f.i], remove_page_param(f.all_seo[f.i].url))

MaxAiItems == 2

AiItem(url) == [url |-> url, title |-> "t", snippet |-> "", domain |-> "d.example"]

\* A root page, a post and its board, a board URL with a wr_id key without
\* "=" and the same with "=", a page the rules leave to the service with
\* and without a fragment, a paginated list, and a board of another host
\* with a page key without "=".
AiPool == {
    AiItem("https://d.example/"),
    AiItem("https://d.example/bbs/board.php?bo_table=free&wr_id=3"),
    AiItem("https://d.example/bbs/board.php?bo_table=free"),
    AiItem("https://d.example/bbs/board.php?bo_table=free&wr_id"),
    AiItem("https://d.example/bbs/board.php?bo_table=free&wr_id="),
    AiItem("https://d.example/view.php?id=5#c"),
    AiItem("https://d.example/view.php?id=5"),
    AiItem("https://d.example/notice?page=2"),
    AiItem("https://e.example/gnu/board.php?bo_table=qa&page") }

AiStart(urls) == [pc |-> "start", urls |-> urls]

AiInit ==
    /\ classify \in {AiStart(urls) : urls \in SeqsUpTo(AiPool, MaxAiItems)}
    /\ parse = Idle /\ filter = Idle /\ cli = Idle
    /\ shape = Idle /\ score = Idle /\ rank = Idle /\ search = Idle /\ brand = Idle

\* if not urls: return [] (lines 285-286)
AiEmpty ==
    /\ classify.pc = "start"
    /\ classify.urls = <<>>
    /\ classify' = [pc |-> "done", urls |-> <<>>, classifications |-> <<>>,
                    all_seo |-> <<>>, i |-> 1, seen_urls |-> {}, result |-> <<>>]
    /\ UNCHANGED <<parse, filter, cli, shape, score, rank, search, brand>>

\* Lines 288-313.  classify_urls gives every URL the label of the rule
\* stages, or, where neither matches, SEO or POST as the service answers;
\* when GroqFilter raises, the except clause gives those URLs POST.
AiClassify ==
    /\ classify.pc = "start"
    /\ classify.urls # <<>>
    /\ \E ai \in [{item.url : item \in Range(classify.urls)} -> {"SEO", "POST"}] :
          classify' = AiFrame(classify.urls,
                              [url \in DOMAIN ai |->
                                  IF RuleLabel(url) = "AI" THEN ai[url] ELSE RuleLabel(url)])
    /\ UNCHANGED <<parse, filter, cli, shape, score, rank, search, brand>>

AiDedupe ==
    /\ classify.pc = "dedupe"
    /\ classify.i <= Len(classify.all_seo)
    /\ classify' = AiDedupeIteration(classify)
    /\ UNCHANGED <<parse, filter, cli, shape, score, rank, search, brand>>

\* return result (line 325)
AiReturn ==
    /\ classify.pc = "dedupe"
    /\ classify.i > Len(classify.all_seo)
    /\ classify' = [classify EXCEPT !.pc = "done"]
    /\ UNCHANGED <<parse, filter, cli, shape, score, rank, search, brand>>

AiNext == AiEmpty \/ AiClassify \/ AiDedupe \/ AiReturn

SpecAi == AiInit /\ [][AiNext]_vars

\* The URLs of the entries extract_category_urls makes for the input
CategoryUrls(urls) == {entry.url : entry \in Range(extract_category_urls(urls))}

\* C28: every entry of the output of filter_urls_with_ai has the URL, as
\* remove_page_param leaves it, of an input item that the classifier
\* labeled SEO or of a category URL that extract_category_urls made from a
\* bo_table value, and no entry of the output has a URL that the
\* classifier labeled POST.
OutputNeverPost ==
    classify.pc = "done" =>
       \A k \in 1..Len(classify.result) :
          /\ \/ \E item \in Range(classify.urls) :
                   /\ classify.classifications[item.url] = "SEO"
                   /\ classify.result[k].url = remove_page_param(item.url)
             \/ \E url \in CategoryUrls(classify.urls) :
                   classify.result[k].url = remove_page_param(url)
          /\ ~ /\ classify.result[k].url \in DOMAIN classify.classifications
               /\ classify.classifications[classify.result[k].url] = "POST"

\* The call has returned, for a board URL with a wr_id key without "=" and
\* the same URL with "=", the second as the URL of its first entry: the URL
\* the rules labeled POST.
OutputNeverPostWitness ==
    /\ classify.pc = "done"
    /\ Len(classify.urls) = 2
    /\ classify.urls[1].url = "https://d.example/bbs/board.php?bo_table=free&wr_id"
    /\ classify.urls[2].url = "https://d.example/bbs/board.php?bo_table=free&wr_id="
    /\ classify.classifications[classify.urls[1].url] = "SEO"
    /\ classify.classifications[classify.urls[2].url] = "POST"
    /\ Len(classify.result) = 2
    /\ classify.result[1].url = classify.urls[2].url
    /\ classify.result[2].url = "https://d.example/bbs/board.php?bo_table=free"

=========================================================================
